---- MODULE Spec2Model ----
(***************************************************************************)
(* Model of the TDS Assignment Solver: the HTTP front door (app/main.py),  *)
(* the question router (app/question_processor.py) and the restricted      *)
(* command handler (app/handlers/command_handler.py).                      *)
(*                                                                         *)
(* Text is a sequence of one-character strings, so that str.lower(),       *)
(* `in`, str.split() and the command regular expressions are computed the  *)
(* way Python computes them.                                               *)
(***************************************************************************)
EXTENDS Integers, Sequences, FiniteSets, TLC

(***************************************************************************)
(* Bounds of the model.                                                    *)
(***************************************************************************)
\* longest `actions` list the classifier reply carries
MaxActions == 2
\* longest `date_range` list the classifier reply carries
MaxDateRange == 3
\* number of concurrent requests
MaxRequests == 2

MaxItems == 3

MaxParts == 3

(***************************************************************************)
(* Python string operations.                                               *)
(***************************************************************************)
UPPER ==
  <<"A", "B", "C", "D", "E", "F", "G", "H", "I", "J", "K", "L", "M",
    "N", "O", "P", "Q", "R", "S", "T", "U", "V", "W", "X", "Y", "Z">>

LOWER ==
  <<"a", "b", "c", "d", "e", "f", "g", "h", "i", "j", "k", "l", "m",
    "n", "o", "p", "q", "r", "s", "t", "u", "v", "w", "x", "y", "z">>

DIGITS == {"0", "1", "2", "3", "4", "5", "6", "7", "8", "9"}

\* \s of the re module and the separators of str.split() / str.strip()
Whitespace == {" ", "\t", "\n", "\r", "\f"}

UpperChars == {UPPER[i] : i \in DOMAIN UPPER}

\* \w of the re module (ASCII part)
WordChars ==
  UpperChars \cup {LOWER[i] : i \in DOMAIN LOWER} \cup DIGITS \cup {"_"}

SetMin(S) == CHOOSE x \in S : \A y \in S : x <= y

SetMax(S) == CHOOSE x \in S : \A y \in S : x >= y

\* str.lower(), one character
LowerChar(c) ==
  IF c \in UpperChars
    THEN LOWER[CHOOSE i \in DOMAIN UPPER : UPPER[i] = c]
    ELSE c

\* str.lower()
Lower(s) == [i \in 1..Len(s) |-> LowerChar(s[i])]

\* k in s
Contains(s, k) ==
  \E i \in 1..(Len(s) - Len(k) + 1) : SubSeq(s, i, i + Len(k) - 1) = k

\* s.startswith(p)
StartsWith(s, p) == Len(s) >= Len(p) /\ SubSeq(s, 1, Len(p)) = p

\* s.endswith(p)
EndsWith(s, p) ==
  Len(s) >= Len(p) /\ SubSeq(s, Len(s) - Len(p) + 1, Len(s)) = p

\* s.strip()
Strip(s) ==
  LET keep == {i \in 1..Len(s) : s[i] \notin Whitespace}
  IN  IF keep = {} THEN <<>> ELSE SubSeq(s, SetMin(keep), SetMax(keep))

\* s.split(): the maximal runs of non-whitespace characters
RECURSIVE SplitWs(_)
SplitWs(s) ==
  LET keep == {i \in 1..Len(s) : s[i] \notin Whitespace}
  IN  IF keep = {} THEN <<>>
      ELSE LET a == SetMin(keep)
               gaps == {i \in a..Len(s) : s[i] \in Whitespace}
               b == IF gaps = {} THEN Len(s) + 1 ELSE SetMin(gaps)
           IN  <<SubSeq(s, a, b - 1)>> \o SplitWs(SubSeq(s, b, Len(s)))

\* s.split(c): the pieces between the separators, empty pieces included
RECURSIVE SplitOn(_, _)
SplitOn(s, c) ==
  LET at == {i \in 1..Len(s) : s[i] = c}
  IN  IF at = {} THEN <<s>>
      ELSE LET a == SetMin(at)
           IN  <<SubSeq(s, 1, a - 1)>> \o SplitOn(SubSeq(s, a + 1, Len(s)), c)

\* the Python str of a text: its characters joined
RECURSIVE Str(_)
Str(s) == IF s = <<>> THEN "" ELSE Head(s) \o Str(Tail(s))

\* os.path.basename of a path without directory part
Basename(path) ==
  LET at == {i \in 1..Len(path) : path[i] = "/"}
  IN  IF at = {} THEN path ELSE SubSeq(path, SetMax(at) + 1, Len(path))

(***************************************************************************)
(* Dates (datetime of the standard library) and DateHandler.               *)
(***************************************************************************)
DigitChars == <<"0", "1", "2", "3", "4", "5", "6", "7", "8", "9">>

\* int() of one decimal digit
DigitValue(c) == (CHOOSE i \in DOMAIN DigitChars : DigitChars[i] = c) - 1

\* s is one or more decimal digits
IsDigits(s) == s # <<>> /\ \A i \in DOMAIN s : s[i] \in DIGITS

\* int(s) of a string of decimal digits
RECURSIVE ToInt(_)
ToInt(s) ==
  IF s = <<>> THEN 0
  ELSE 10 * ToInt(SubSeq(s, 1, Len(s) - 1)) + DigitValue(s[Len(s)])

\* n written with at least width digits, zero padded
RECURSIVE Padded(_, _)
Padded(n, width) ==
  IF width <= 1 /\ n < 10 THEN <<DigitChars[n + 1]>>
  ELSE Append(Padded(n \div 10, width - 1), DigitChars[(n % 10) + 1])

\* a date written as YYYY-MM-DD and as MM/DD/YYYY
FormatIso(y, m, d) ==
  Padded(y, 4) \o <<"-">> \o Padded(m, 2) \o <<"-">> \o Padded(d, 2)

FormatUs(y, m, d) ==
  Padded(m, 2) \o <<"/">> \o Padded(d, 2) \o <<"/">> \o Padded(y, 4)

\* calendar.isleap
IsLeap(y) == (y % 4 = 0) /\ ((y % 100 # 0) \/ (y % 400 = 0))

\* the days of month m of year y
DaysInMonth(y, m) ==
  IF m = 2 THEN (IF IsLeap(y) THEN 29 ELSE 28)
  ELSE IF m \in {4, 6, 9, 11} THEN 30 ELSE 31

\* the days of year y before month m
RECURSIVE DaysBeforeMonth(_, _)
DaysBeforeMonth(y, m) ==
  IF m = 1 THEN 0 ELSE DaysBeforeMonth(y, m - 1) + DaysInMonth(y, m - 1)

\* date.toordinal(): 0001-01-01 is day 1
ToOrdinal(date) ==
  LET y == date.y - 1
  IN  365 * y + (y \div 4) - (y \div 100) + (y \div 400)
        + DaysBeforeMonth(date.y, date.m) + date.d

\* date.weekday(): Monday is 0
Weekday(ordinal) == (ordinal + 6) % 7

\* datetime.max is 9999-12-31
MaxOrdinal == ToOrdinal([y |-> 9999, m |-> 12, d |-> 31])

\* what strptime makes of the fields of its pattern: a date, or the
\* ValueError it raises
MakeDate(text, fmt, ys, ms, ds) ==
  LET mismatch == [ok |-> FALSE,
                   error |-> "time data '" \o Str(text)
                               \o "' does not match format '" \o fmt \o "'"]
  IN  IF ~(IsDigits(ys) /\ IsDigits(ms) /\ IsDigits(ds)) THEN mismatch
      ELSE IF Len(ys) # 4 \/ Len(ms) > 2 \/ Len(ds) > 2 THEN mismatch
      ELSE IF ToInt(ms) \notin 1..12 \/ ToInt(ds) \notin 1..31 THEN mismatch
      ELSE IF ToInt(ys) = 0
        THEN [ok |-> FALSE, error |-> "year 0 is out of range"]
      ELSE IF ToInt(ds) > DaysInMonth(ToInt(ys), ToInt(ms))
        THEN [ok |-> FALSE, error |-> "day is out of range for month"]
      ELSE [ok |-> TRUE, y |-> ToInt(ys), m |-> ToInt(ms), d |-> ToInt(ds)]

\* datetime.strptime(text, "%Y-%m-%d")
StrptimeIso(text) ==
  LET parts == SplitOn(text, "-")
  IN  IF Len(parts) # 3
        THEN MakeDate(text, "%Y-%m-%d", <<>>, <<>>, <<>>)
        ELSE MakeDate(text, "%Y-%m-%d", parts[1], parts[2], parts[3])

\* datetime.strptime(text, "%m/%d/%Y")
StrptimeUs(text) ==
  LET parts == SplitOn(text, "/")
  IN  IF Len(parts) # 3
        THEN MakeDate(text, "%m/%d/%Y", <<>>, <<>>, <<>>)
        ELSE MakeDate(text, "%m/%d/%Y", parts[3], parts[1], parts[2])

\* the loop of lines 29-36 and 48-53: the count as str(count), or the
\* OverflowError of `current += timedelta(days=1)` past datetime.max
CountLoop(start_date, end_date) ==
  LET first == ToOrdinal(start_date)
      last == ToOrdinal(end_date)
  IN  IF first <= last /\ last = MaxOrdinal
        THEN [ok |-> FALSE, error |-> "date value out of range"]
        ELSE [ok |-> TRUE,
              count |-> ToString(Cardinality({n \in first..last :
                                                Weekday(n) = 2}))]

\* DateHandler.count_wednesdays: the string returned
count_wednesdays(start_date_str, end_date_str) ==
  LET start_iso == StrptimeIso(start_date_str)
      end_iso == StrptimeIso(end_date_str)
      start_us == StrptimeUs(start_date_str)
      end_us == StrptimeUs(end_date_str)
      looped == CountLoop(start_iso, end_iso)
      looped_us == CountLoop(start_us, end_us)
  IN  IF start_iso.ok /\ end_iso.ok
        THEN IF looped.ok THEN looped.count
             ELSE "Error counting Wednesdays: " \o looped.error
      ELSE IF ~start_us.ok
        THEN "Error parsing dates: " \o start_us.error
               \o ". Please use YYYY-MM-DD format."
      ELSE IF ~end_us.ok
        THEN "Error parsing dates: " \o end_us.error
               \o ". Please use YYYY-MM-DD format."
      ELSE IF looped_us.ok THEN looped_us.count
      ELSE "Error parsing dates: " \o looped_us.error
             \o ". Please use YYYY-MM-DD format."

(***************************************************************************)
(* JSON documents (json of the standard library) and JSONHandler.  The     *)
(* documents are those of the bounded input set: objects, arrays, strings  *)
(* without escapes, integers, true, false and null.                        *)
(***************************************************************************)
\* the printable ASCII characters in code-point order, from the space (32)
\* on, without the grave accent (96)
Codepoints ==
  <<" ", "!", "\"", "#", "$", "%", "&", "'", "(", ")", "*", "+",
    ",", "-", ".", "/", "0", "1", "2", "3", "4", "5", "6", "7", "8", "9", ":",
    ";", "<", "=", ">", "?", "@", "A", "B", "C", "D", "E", "F", "G", "H", "I",
    "J", "K", "L", "M", "N", "O", "P", "Q", "R", "S", "T", "U", "V", "W", "X",
    "Y", "Z", "[", "\\", "]", "^", "_", "a", "b", "c", "d", "e", "f",
    "g", "h", "i", "j", "k", "l", "m", "n", "o", "p", "q", "r", "s", "t", "u",
    "v", "w", "x", "y", "z", "{", "|", "}", "~">>

\* the literals of json_handler.py and the messages of the exceptions
Texts ==
  [null |->
     <<"n", "u", "l", "l">>,
   true |->
     <<"t", "r", "u", "e">>,
   false |->
     <<"f", "a", "l", "s", "e">>,
   None |->
     <<"N", "o", "n", "e">>,
   True |->
     <<"T", "r", "u", "e">>,
   False |->
     <<"F", "a", "l", "s", "e">>,
   age |->
     <<"a", "g", "e">>,
   name |->
     <<"n", "a", "m", "e">>,
   expected |->
     <<"E", "r", "r", "o", "r", ":", " ", "E", "x", "p", "e",
       "c", "t", "e", "d", " ", "a", " ", "J", "S", "O", "N", " ", "a", "r",
       "r", "a", "y", ",", " ", "g", "o", "t", " ">>,
   parsing |->
     <<"E", "r", "r", "o", "r", " ", "p", "a", "r", "s", "i",
       "n", "g", " ", "J", "S", "O", "N", ":", " ">>,
   processing |->
     <<"E", "r", "r", "o", "r", " ", "p", "r", "o", "c",
       "e", "s", "s", "i", "n", "g", " ", "J", "S", "O", "N", ":", " ">>,
   extracting |->
     <<"E", "r", "r", "o", "r", " ", "e", "x", "t", "r",
       "a", "c", "t", "i", "n", "g", " ", "f", "r", "o", "m", " ", "J", "S",
       "O", "N", ":", " ">>,
   index |->
     <<"E", "r", "r", "o", "r", ":", " ", "I", "n", "d", "e",
       "x", " ">>,
   out_of_range |->
     <<" ", "o", "u", "t", " ", "o", "f", " ", "r", "a",
       "n", "g", "e">>,
   not_supported |->
     <<"'", "<", "'", " ", "n", "o", "t", " ", "s", "u",
       "p", "p", "o", "r", "t", "e", "d", " ", "b", "e", "t", "w", "e", "e",
       "n", " ", "i", "n", "s", "t", "a", "n", "c", "e", "s", " ", "o", "f",
       " ", "'">>,
   and_a |->
     <<"'", " ", "a", "n", "d", " ", "'">>,
   quote |->
     <<"'">>,
   no_get |->
     <<"'", " ", "o", "b", "j", "e", "c", "t", " ", "h", "a",
       "s", " ", "n", "o", " ", "a", "t", "t", "r", "i", "b", "u", "t", "e",
       " ", "'", "g", "e", "t", "'">>,
   expecting_value |->
     <<"E", "x", "p", "e", "c", "t", "i", "n", "g",
       " ", "v", "a", "l", "u", "e">>,
   extra_data |->
     <<"E", "x", "t", "r", "a", " ", "d", "a", "t", "a">>,
   unterminated |->
     <<"U", "n", "t", "e", "r", "m", "i", "n", "a", "t",
       "e", "d", " ", "s", "t", "r", "i", "n", "g", " ", "s", "t", "a", "r",
       "t", "i", "n", "g", " ", "a", "t">>,
   expecting_name |->
     <<"E", "x", "p", "e", "c", "t", "i", "n", "g", " ",
       "p", "r", "o", "p", "e", "r", "t", "y", " ", "n", "a", "m", "e", " ",
       "e", "n", "c", "l", "o", "s", "e", "d", " ", "i", "n", " ", "d", "o",
       "u", "b", "l", "e", " ", "q", "u", "o", "t", "e", "s">>,
   expecting_colon |->
     <<"E", "x", "p", "e", "c", "t", "i", "n", "g",
       " ", "'", ":", "'", " ", "d", "e", "l", "i", "m", "i", "t", "e", "r">>,
   expecting_comma |->
     <<"E", "x", "p", "e", "c", "t", "i", "n", "g",
       " ", "'", ",", "'", " ", "d", "e", "l", "i", "m", "i", "t", "e", "r">>]

\* the text of type(x).__name__
TypeNames ==
  [NoneType |-> <<"N", "o", "n", "e", "T", "y", "p", "e">>,
   bool |-> <<"b", "o", "o", "l">>,
   int |-> <<"i", "n", "t">>,
   str |-> <<"s", "t", "r">>,
   list |-> <<"l", "i", "s", "t">>,
   dict |-> <<"d", "i", "c", "t">>,
   tuple |-> <<"t", "u", "p", "l", "e">>]

\* ord(c)
Ord(c) ==
  LET i == CHOOSE k \in DOMAIN Codepoints : Codepoints[k] = c
  IN  IF i <= 64 THEN 31 + i ELSE 32 + i

\* the Python values json.loads builds, tagged with type(x).__name__; a dict
\* is the sequence of its items in insertion order
PyNone == [t |-> "NoneType", v |-> 0]

PyBool(b) == [t |-> "bool", v |-> IF b THEN 1 ELSE 0]

PyInt(n) == [t |-> "int", v |-> n]

PyStr(s) == [t |-> "str", v |-> s]

PyList(items) == [t |-> "list", v |-> items]

PyDict(items) == [t |-> "dict", v |-> items]

Item(key, value) == [key |-> key, value |-> value]

\* key in d
HasKey(d, key) == \E i \in DOMAIN d.v : d.v[i].key = key

\* d.get(key, default)
DictGet(d, key, default) ==
  IF HasKey(d, key)
    THEN d.v[CHOOSE i \in DOMAIN d.v : d.v[i].key = key].value
    ELSE default

\* d[key] = value on the items of a dict: a key that is present keeps its
\* place
SetItem(items, key, value) ==
  IF \E i \in DOMAIN items : items[i].key = key
    THEN [i \in DOMAIN items |->
            IF items[i].key = key THEN Item(key, value) ELSE items[i]]
    ELSE Append(items, Item(key, value))

\* Body(value), with value computed once
Once(value, Body(_)) == CHOOSE result \in {Body(x) : x \in {value}} : TRUE

\* the scanner's result: a value and the index after it, or the message of
\* the JSONDecodeError (its line and column are left out)
Scanned(value, next) ==
  [ok |-> TRUE, value |-> value, next |-> next, error |-> <<>>]

DecodeError(message) ==
  [ok |-> FALSE, value |-> PyNone, next |-> 0, error |-> message]

\* the character at index i, "" past the end
At(s, i) == IF i \in DOMAIN s THEN s[i] ELSE ""

\* the index of the first character at or after i that is no whitespace
RECURSIVE SkipWhitespace(_, _)
SkipWhitespace(s, i) ==
  IF At(s, i) \in {" ", "\t", "\n", "\r"} THEN SkipWhitespace(s, i + 1) ELSE i

\* the index after the run of digits that starts at i
RECURSIVE DigitsEnd(_, _)
DigitsEnd(s, i) == IF At(s, i) \in DIGITS THEN DigitsEnd(s, i + 1) ELSE i

\* the text at index i is word
Matches(s, i, word) ==
  i + Len(word) - 1 <= Len(s) /\ SubSeq(s, i, i + Len(word) - 1) = word

\* json.scanner: the string that starts with the quote at index i
ScanString(s, i) ==
  LET closing == {k \in (i + 1)..Len(s) : s[k] = "\""}
  IN  IF closing = {} THEN DecodeError(Texts.unterminated)
      ELSE Scanned(PyStr(SubSeq(s, i + 1, SetMin(closing) - 1)),
                   SetMin(closing) + 1)

\* A float is kept as its sign, the digits before the point and the digits
\* after it, which is what repr prints for a value of at most 15 significant
\* digits between 1e-4 and 1e16; inf and nan are kept by name. The texts
\* hold no underscore.
PyFloat(sign, whole, frac) == [t |-> "float", v |-> <<sign, whole, frac>>]

K_inf == <<"i", "n", "f">>

K_infinity == <<"i", "n", "f", "i", "n", "i", "t", "y">>

K_nan == <<"n", "a", "n">>

\* n zeros
Zeros(n) == [i \in 1..n |-> "0"]

\* the digits without leading zeros, "0" when none is left
DropLeadingZeros(digits) ==
  LET nonzero == {i \in DOMAIN digits : digits[i] # "0"}
  IN  IF nonzero = {} THEN <<"0">>
      ELSE SubSeq(digits, SetMin(nonzero), Len(digits))

\* the digits without trailing zeros, "0" when none is left
DropTrailingZeros(digits) ==
  LET nonzero == {i \in DOMAIN digits : digits[i] # "0"}
  IN  IF nonzero = {} THEN <<"0">> ELSE SubSeq(digits, 1, SetMax(nonzero))

\* the float of the digits of body, with an optional point and an optional
\* exponent, after the sign
FloatOfDigits(sign, body) ==
  Once({i \in DOMAIN body : body[i] \in {"e", "E"}}, LAMBDA es :
    Once(IF es = {} THEN body ELSE SubSeq(body, 1, SetMin(es) - 1),
         LAMBDA mantissa :
      Once(IF es = {} THEN <<>>
           ELSE SubSeq(body, SetMin(es) + 1, Len(body)), LAMBDA exponent :
        Once(IF exponent # <<>> /\ exponent[1] \in {"+", "-"}
               THEN Tail(exponent) ELSE exponent, LAMBDA exponent_digits :
          Once({i \in DOMAIN mantissa : mantissa[i] = "."}, LAMBDA dots :
            Once(IF dots = {} THEN Len(mantissa) ELSE SetMin(dots) - 1,
                 LAMBDA whole :
              Once(SelectSeq(mantissa, LAMBDA c : c # "."), LAMBDA digits :
                IF \/ digits = <<>>
                   \/ \E i \in DOMAIN digits : digits[i] \notin DIGITS
                   \/ Cardinality(dots) > 1
                   \/ es # {} /\ ~IsDigits(exponent_digits)
                  THEN [ok |-> FALSE, value |-> PyNone]
                ELSE
                  Once(whole
                         + (IF exponent_digits = <<>> THEN 0
                            ELSE IF exponent[1] = "-"
                              THEN 0 - ToInt(exponent_digits)
                            ELSE ToInt(exponent_digits)), LAMBDA point :
                    [ok |-> TRUE,
                     value |->
                       PyFloat(sign,
                               DropLeadingZeros(
                                 IF point <= 0 THEN <<>>
                                 ELSE IF point >= Len(digits)
                                   THEN digits \o Zeros(point - Len(digits))
                                 ELSE SubSeq(digits, 1, point)),
                               DropTrailingZeros(
                                 IF point <= 0 THEN Zeros(0 - point) \o digits
                                 ELSE IF point >= Len(digits) THEN <<>>
                                 ELSE SubSeq(digits, point + 1,
                                             Len(digits))))]))))))))

\* float(value): ok is FALSE where float raises ValueError. The text is
\* stripped; after an optional sign it is inf, infinity or nan in any case,
\* or digits with an optional point and an optional exponent.
float(value) ==
  Once(Strip(value), LAMBDA text :
    Once(text # <<>> /\ text[1] \in {"+", "-"}, LAMBDA signed :
      Once(IF signed THEN Tail(text) ELSE text, LAMBDA body :
        IF Lower(body) \in {K_inf, K_infinity}
          THEN [ok |-> TRUE,
                value |-> PyFloat(IF text[1] = "-" THEN <<"-">> ELSE <<>>,
                                  K_inf, <<>>)]
        ELSE IF Lower(body) = K_nan
          THEN [ok |-> TRUE, value |-> PyFloat(<<>>, K_nan, <<>>)]
        ELSE FloatOfDigits(IF signed /\ text[1] = "-" THEN <<"-">> ELSE <<>>,
                           body))))

\* float.__repr__ as json.dumps prints it (NaN and Infinity for nan and inf)
FloatRepr(v) ==
  IF v[2] = K_nan THEN <<"N", "a", "N">>
  ELSE IF v[2] = K_inf THEN v[1] \o <<"I", "n", "f", "i", "n", "i", "t", "y">>
  ELSE v[1] \o v[2] \o <<".">> \o v[3]

\* json.scanner: the number at index i: an integer, or a float when a
\* fraction or an exponent follows the integer part
ScanNumber(s, i) ==
  Once(IF At(s, i) = "-" THEN i + 1 ELSE i, LAMBDA first :
    Once(IF At(s, first) = "0" THEN first + 1 ELSE DigitsEnd(s, first),
         LAMBDA last :
      Once(IF At(s, last) = "." /\ At(s, last + 1) \in DIGITS
             THEN DigitsEnd(s, last + 1) ELSE last, LAMBDA fraction_end :
        Once(IF At(s, fraction_end) \notin {"e", "E"} THEN 0
             ELSE IF At(s, fraction_end + 1) \in {"+", "-"}
               THEN fraction_end + 2
             ELSE fraction_end + 1, LAMBDA exponent_start :
          Once(IF exponent_start # 0 /\ At(s, exponent_start) \in DIGITS
                 THEN DigitsEnd(s, exponent_start) ELSE fraction_end,
               LAMBDA number_end :
            IF last = first THEN DecodeError(Texts.expecting_value)
            ELSE IF number_end > last
              THEN Scanned(float(SubSeq(s, i, number_end - 1)).value,
                           number_end)
            ELSE IF first = i
              THEN Scanned(PyInt(ToInt(SubSeq(s, first, last - 1))), last)
            ELSE Scanned(PyInt(0 - ToInt(SubSeq(s, first, last - 1))),
                         last))))))

RECURSIVE ScanOnce(_, _), ScanArray(_, _, _), ScanObject(_, _, _)
\* json.scanner.py_scanstring and scan_once: the value at index i
ScanOnce(s, i) ==
  LET c == At(s, i)
  IN  IF c = "\"" THEN ScanString(s, i)
      ELSE IF c = "{"
        THEN Once(SkipWhitespace(s, i + 1), LAMBDA inside :
               IF At(s, inside) = "}" THEN Scanned(PyDict(<<>>), inside + 1)
               ELSE ScanObject(s, inside, <<>>))
      ELSE IF c = "["
        THEN Once(SkipWhitespace(s, i + 1), LAMBDA inside :
               IF At(s, inside) = "]" THEN Scanned(PyList(<<>>), inside + 1)
               ELSE ScanArray(s, inside, <<>>))
      ELSE IF Matches(s, i, Texts.null) THEN Scanned(PyNone, i + 4)
      ELSE IF Matches(s, i, Texts.true) THEN Scanned(PyBool(TRUE), i + 4)
      ELSE IF Matches(s, i, Texts.false) THEN Scanned(PyBool(FALSE), i + 5)
      ELSE
        Once(IF c \in DIGITS \cup {"-"} THEN ScanNumber(s, i)
             ELSE DecodeError(Texts.expecting_value), LAMBDA number :
          IF number.ok THEN number
          ELSE IF Matches(s, i, <<"N", "a", "N">>)
            THEN Scanned(PyFloat(<<>>, K_nan, <<>>), i + 3)
          ELSE IF Matches(s, i, <<"I", "n", "f", "i", "n", "i", "t", "y">>)
            THEN Scanned(PyFloat(<<>>, K_inf, <<>>), i + 8)
          ELSE IF Matches(s, i,
                          <<"-", "I", "n", "f", "i", "n", "i", "t", "y">>)
            THEN Scanned(PyFloat(<<"-">>, K_inf, <<>>), i + 9)
          ELSE number)

\* json.decoder.JSONArray: the values from index i on, after those of values
ScanArray(s, i, values) ==
  Once(ScanOnce(s, i), LAMBDA value :
    Once(SkipWhitespace(s, value.next), LAMBDA after :
      IF ~value.ok THEN value
      ELSE IF At(s, after) = "]"
        THEN Scanned(PyList(Append(values, value.value)), after + 1)
      ELSE IF At(s, after) = ","
        THEN Once(Append(values, value.value), LAMBDA scanned :
               ScanArray(s, SkipWhitespace(s, after + 1), scanned))
      ELSE DecodeError(Texts.expecting_comma)))

\* json.decoder.JSONObject: the members from index i on, after those of items
ScanObject(s, i, items) ==
  IF At(s, i) # "\"" THEN DecodeError(Texts.expecting_name)
  ELSE
    Once(ScanString(s, i), LAMBDA key :
      Once(SkipWhitespace(s, key.next), LAMBDA colon :
        IF ~key.ok THEN key
        ELSE IF At(s, colon) # ":" THEN DecodeError(Texts.expecting_colon)
        ELSE
          Once(ScanOnce(s, SkipWhitespace(s, colon + 1)), LAMBDA value :
            Once(SkipWhitespace(s, value.next), LAMBDA after :
              IF ~value.ok THEN value
              ELSE IF At(s, after) = "}"
                THEN Scanned(PyDict(SetItem(items, key.value.v, value.value)),
                             after + 1)
              ELSE IF At(s, after) = ","
                THEN Once(SetItem(items, key.value.v, value.value),
                          LAMBDA scanned :
                            ScanObject(s, SkipWhitespace(s, after + 1),
                                       scanned))
              ELSE DecodeError(Texts.expecting_comma)))))

\* json.loads(s)
loads(s) ==
  Once(ScanOnce(s, SkipWhitespace(s, 1)), LAMBDA value :
    IF ~value.ok THEN value
    ELSE IF SkipWhitespace(s, value.next) # Len(s) + 1
      THEN DecodeError(Texts.extra_data)
    ELSE value)

\* str(n) of an integer
IntText(n) == IF n < 0 THEN <<"-">> \o Padded(0 - n, 1) ELSE Padded(n, 1)

\* json.dumps(x, separators=(item_separator, key_separator))
RECURSIVE dumps(_, _, _)
dumps(x, item_separator, key_separator) ==
  LET RECURSIVE Joined(_)
      Joined(i) ==
        IF i > Len(x.v) THEN <<>>
        ELSE (IF i = 1 THEN <<>> ELSE item_separator)
               \o (IF x.t = "list"
                     THEN dumps(x.v[i], item_separator, key_separator)
                     ELSE <<"\"">> \o x.v[i].key \o <<"\"">> \o key_separator
                            \o dumps(x.v[i].value, item_separator,
                                     key_separator))
               \o Joined(i + 1)
  IN  IF x.t = "NoneType" THEN Texts.null
      ELSE IF x.t = "bool"
        THEN (IF x.v = 1 THEN Texts.true ELSE Texts.false)
      ELSE IF x.t = "int" THEN IntText(x.v)
      ELSE IF x.t = "float" THEN FloatRepr(x.v)
      ELSE IF x.t = "str" THEN <<"\"">> \o x.v \o <<"\"">>
      ELSE IF x.t = "list" THEN <<"[">> \o Joined(1) \o <<"]">>
      ELSE <<"{">> \o Joined(1) \o <<"}">>

\* str(x) of a value that is no dict and no list
str(x) ==
  IF x.t = "NoneType" THEN Texts.None
  ELSE IF x.t = "bool" THEN (IF x.v = 1 THEN Texts.True ELSE Texts.False)
  ELSE IF x.t = "int" THEN IntText(x.v)
  ELSE x.v

\* the result of a comparison: its truth value, or the message of the
\* TypeError
Compared(lt) == [ok |-> TRUE, lt |-> lt, error |-> <<>>]

NotSupported(a, b) ==
  [ok |-> FALSE, lt |-> FALSE,
   error |-> Texts.not_supported \o TypeNames[a.t] \o Texts.and_a
               \o TypeNames[b.t] \o Texts.quote]

PyTuple(items) == [t |-> "tuple", v |-> items]

IsNumber(x) == x.t \in {"int", "bool"}

\* a == b
RECURSIVE PyEq(_, _)
PyEq(a, b) ==
  IF IsNumber(a) /\ IsNumber(b) THEN a.v = b.v
  ELSE IF a.t # b.t THEN FALSE
  ELSE IF a.t \in {"list", "tuple"}
    THEN /\ Len(a.v) = Len(b.v)
         /\ \A i \in DOMAIN a.v : PyEq(a.v[i], b.v[i])
  ELSE IF a.t = "dict"
    THEN /\ Len(a.v) = Len(b.v)
         /\ \A i \in DOMAIN a.v :
              /\ HasKey(b, a.v[i].key)
              /\ PyEq(a.v[i].value, DictGet(b, a.v[i].key, PyNone))
  ELSE a.v = b.v

\* a < b of two strings: by code point
StrLt(a, b) ==
  LET differ == {i \in DOMAIN a \cap DOMAIN b : a[i] # b[i]}
  IN  IF differ = {} THEN Len(a) < Len(b)
      ELSE Ord(a[SetMin(differ)]) < Ord(b[SetMin(differ)])

\* a < b
RECURSIVE PyLt(_, _)
PyLt(a, b) ==
  IF IsNumber(a) /\ IsNumber(b) THEN Compared(a.v < b.v)
  ELSE IF a.t = "str" /\ b.t = "str" THEN Compared(StrLt(a.v, b.v))
  ELSE IF a.t = b.t /\ a.t \in {"list", "tuple"}
    THEN LET differ == {i \in DOMAIN a.v \cap DOMAIN b.v :
                          ~PyEq(a.v[i], b.v[i])}
         IN  IF differ = {} THEN Compared(Len(a.v) < Len(b.v))
             ELSE PyLt(a.v[SetMin(differ)], b.v[SetMin(differ)])
  ELSE NotSupported(a, b)

\* the result of sorted(): the list, or the message of the exception
Sorted(items) == [ok |-> TRUE, items |-> items, error |-> <<>>]

SortError(message) == [ok |-> FALSE, items |-> <<>>, error |-> message]

\* listobject.c count_run: the length of the run that starts the list of
\* keyed items a, and whether it descends
CountRun(a) ==
  LET failed(less) ==
        [ok |-> FALSE, n |-> 0, descending |-> FALSE, error |-> less.error]
      run(n, descending) ==
        [ok |-> TRUE, n |-> n, descending |-> descending, error |-> <<>>]
      RECURSIVE Run(_, _)
      Run(k, descending) ==
        IF k > Len(a) THEN run(Len(a), descending)
        ELSE Once(PyLt(a[k].key, a[k - 1].key), LAMBDA less :
               IF ~less.ok THEN failed(less)
               ELSE IF less.lt = descending THEN Run(k + 1, descending)
               ELSE run(k - 1, descending))
  IN  Once(PyLt(a[2].key, a[1].key), LAMBDA first :
        IF ~first.ok THEN failed(first) ELSE Run(3, first.lt))

\* listobject.c reverse_slice of the first n items
ReverseRun(a, n) ==
  [i \in DOMAIN a |-> IF i <= n THEN a[n + 1 - i] ELSE a[i]]

\* listobject.c binarysort: the items from index start on are inserted, one
\* after the other, into the sorted items before them
RECURSIVE BinarySort(_, _)
BinarySort(a, start) ==
  LET pivot == a[start]
      RECURSIVE Place(_, _)
      Place(l, r) ==
        IF l >= r THEN [ok |-> TRUE, at |-> l, error |-> <<>>]
        ELSE Once(l + ((r - l) \div 2), LAMBDA p :
               Once(PyLt(pivot.key, a[p].key), LAMBDA less :
                 IF ~less.ok
                   THEN [ok |-> FALSE, at |-> 0, error |-> less.error]
                 ELSE IF less.lt THEN Place(l, p)
                 ELSE Place(p + 1, r)))
      inserted(at) ==
        [i \in DOMAIN a |->
           IF i < at \/ i > start THEN a[i]
           ELSE IF i = at THEN pivot
           ELSE a[i - 1]]
  IN  IF start > Len(a) THEN Sorted(a)
      ELSE Once(Place(1, start), LAMBDA place :
             IF ~place.ok THEN SortError(place.error)
             ELSE Once(inserted(place.at), LAMBDA next :
                    BinarySort(next, start + 1)))

\* listobject.c list_sort_impl for a list shorter than 64: one run, counted
\* and extended by binary insertion
ListSort(a) ==
  IF Len(a) < 2 THEN Sorted(a)
  ELSE Once(CountRun(a), LAMBDA run :
         IF ~run.ok THEN SortError(run.error)
         ELSE Once(IF run.descending THEN ReverseRun(a, run.n) ELSE a,
                   LAMBDA counted : BinarySort(counted, run.n + 1)))

\* sorted(data, key=...): by_age and by_name say which key line 38, 41 or 44
\* uses
sorted(data, by_age, by_name) ==
  LET age(x) == DictGet(x, Texts.age, PyInt(0))
      name(x) == DictGet(x, Texts.name, PyStr(<<>>))
      key(x) ==
        IF by_age /\ by_name THEN PyTuple(<<age(x), name(x)>>)
        ELSE IF by_age THEN age(x) ELSE name(x)
      no_dict == {i \in DOMAIN data : data[i].t # "dict"}
  IN  IF no_dict # {}
        THEN SortError(Texts.quote \o TypeNames[data[SetMin(no_dict)].t]
                         \o Texts.no_get)
      ELSE Once([i \in DOMAIN data |->
                   [key |-> key(data[i]), item |-> data[i]]],
                LAMBDA keyed :
                  Once(ListSort(keyed), LAMBDA done :
                    IF ~done.ok THEN done
                    ELSE Sorted([i \in DOMAIN data |-> done.items[i].item])))

\* JSONHandler.sort_json: the string returned
sort_json(json_str) ==
  LET has(data, key) ==
        \E i \in DOMAIN data : data[i].t = "dict" /\ HasKey(data[i], key)
      sorted_data(data) ==
        IF has(data, Texts.age) \/ has(data, Texts.name)
          THEN sorted(data, has(data, Texts.age), has(data, Texts.name))
          ELSE Sorted(data)
  IN  Once(loads(Strip(json_str)), LAMBDA data :
        IF ~data.ok THEN Texts.parsing \o data.error
        ELSE IF data.value.t # "list"
          THEN Texts.expected \o TypeNames[data.value.t]
        ELSE Once(sorted_data(data.value.v), LAMBDA sorted_data_ :
               IF ~sorted_data_.ok
                 THEN Texts.processing \o sorted_data_.error
               ELSE dumps(PyList(sorted_data_.items), <<",">>, <<":">>)))

\* the end of the run of word characters that starts at index i
RECURSIVE WordEnd(_, _)
WordEnd(s, i) == IF At(s, i) \in WordChars THEN WordEnd(s, i + 1) ELSE i

\* re.findall(r'(\w+)|\[(\d+)\]', key_path) from index i on
RECURSIVE FindParts(_, _)
FindParts(key_path, i) ==
  LET digits == DigitsEnd(key_path, i + 1)
  IN  IF i > Len(key_path) THEN <<>>
      ELSE IF key_path[i] \in WordChars
        THEN <<[name |-> SubSeq(key_path, i, WordEnd(key_path, i) - 1),
                index |-> <<>>]>>
               \o FindParts(key_path, WordEnd(key_path, i))
      ELSE IF key_path[i] = "[" /\ digits > i + 1 /\ At(key_path, digits) = "]"
        THEN <<[name |-> <<>>, index |-> SubSeq(key_path, i + 1, digits - 1)]>>
               \o FindParts(key_path, digits + 1)
      ELSE FindParts(key_path, i + 1)

\* lines 79-91: the loop over the parts from the k-th on, and the conversion
\* of the value reached
RECURSIVE Navigate(_, _, _)
Navigate(value, parts, k) ==
  LET i == ToInt(parts[k].index)
  IN  IF k > Len(parts)
        THEN IF value.t \in {"dict", "list"}
               THEN dumps(value, <<",", " ">>, <<":", " ">>)
               ELSE str(value)
      ELSE IF parts[k].name # <<>>
        THEN IF value.t # "dict"
               THEN Texts.extracting \o Texts.quote \o TypeNames[value.t]
                      \o Texts.no_get
               ELSE Once(DictGet(value, parts[k].name, PyDict(<<>>)),
                         LAMBDA got : Navigate(got, parts, k + 1))
      ELSE IF value.t = "list" /\ i < Len(value.v)
        THEN Once(value.v[i + 1], LAMBDA got : Navigate(got, parts, k + 1))
      ELSE Texts.index \o IntText(i) \o Texts.out_of_range

\* JSONHandler.extract_json_key: the string returned
extract_json_key(json_str, key_path) ==
  Once(loads(json_str), LAMBDA data :
    IF ~data.ok THEN Texts.extracting \o data.error
    ELSE Once(FindParts(key_path, 1), LAMBDA parts :
           Navigate(data.value, parts, 1)))

(***************************************************************************)
(* Literals of the source and the texts of the bounded input set.          *)
(***************************************************************************)
\* "npx"
K_npx ==
  <<"n", "p", "x">>

\* "prettier"
K_prettier ==
  <<"p", "r", "e", "t", "t", "i", "e", "r">>

\* "sha256sum"
K_sha256sum ==
  <<"s", "h", "a", "2", "5", "6", "s", "u", "m">>

\* "multi-cursor"
K_multi_cursor ==
  <<"m", "u", "l", "t", "i", "-", "c", "u", "r", "s", "o", "r">>

\* "json"
K_json ==
  <<"j", "s", "o", "n">>

\* "jsonhash"
K_jsonhash ==
  <<"j", "s", "o", "n", "h", "a", "s", "h">>

\* "hash"
K_hash ==
  <<"h", "a", "s", "h">>

\* "run"
K_run ==
  <<"r", "u", "n">>

\* "execute"
K_execute ==
  <<"e", "x", "e", "c", "u", "t", "e">>

\* "command"
K_command ==
  <<"c", "o", "m", "m", "a", "n", "d">>

\* "what"
K_what ==
  <<"w", "h", "a", "t">>

\* "$FILE"
K_FILE ==
  <<"$", "F", "I", "L", "E">>

\* "{file}"
K_file_brace ==
  <<"{", "f", "i", "l", "e", "}">>

\* "--"
K_dashdash ==
  <<"-", "-">>

\* "temp_"
K_temp ==
  <<"t", "e", "m", "p", "_">>

\* ".zip"
K_zip ==
  <<".", "z", "i", "p">>

\* ".csv"
K_csv ==
  <<".", "c", "s", "v">>

\* "-y"
A_y ==
  <<"-", "y">>

\* "prettier@3.4.2"
A_prettier_3_4_2 ==
  <<"p", "r", "e", "t", "t", "i", "e", "r", "@", "3", ".", "4", ".", "2">>

\* "README.md"
N_README_md ==
  <<"R", "E", "A", "D", "M", "E", ".", "m", "d">>

\* "data.zip"
N_data_zip ==
  <<"d", "a", "t", "a", ".", "z", "i", "p">>

\* "data.csv"
N_data_csv ==
  <<"d", "a", "t", "a", ".", "c", "s", "v">>

\* "Download README.md. In the directory where you downloaded it, make sure it is called README.md, and run npx -y prettier@3.4.2 README.md | sha256sum. What is the output of the command?"
T_prettier ==
  <<"D", "o", "w", "n", "l", "o", "a", "d", " ", "R", "E", "A", "D", "M", "E", ".",
    "m", "d", ".", " ", "I", "n", " ", "t", "h", "e", " ", "d", "i", "r", "e", "c",
    "t", "o", "r", "y", " ", "w", "h", "e", "r", "e", " ", "y", "o", "u", " ", "d",
    "o", "w", "n", "l", "o", "a", "d", "e", "d", " ", "i", "t", ",", " ", "m", "a",
    "k", "e", " ", "s", "u", "r", "e", " ", "i", "t", " ", "i", "s", " ", "c", "a",
    "l", "l", "e", "d", " ", "R", "E", "A", "D", "M", "E", ".", "m", "d", ",", " ",
    "a", "n", "d", " ", "r", "u", "n", " ", "n", "p", "x", " ", "-", "y", " ", "p",
    "r", "e", "t", "t", "i", "e", "r", "@", "3", ".", "4", ".", "2", " ", "R", "E",
    "A", "D", "M", "E", ".", "m", "d", " ", "|", " ", "s", "h", "a", "2", "5", "6",
    "s", "u", "m", ".", " ", "W", "h", "a", "t", " ", "i", "s", " ", "t", "h", "e",
    " ", "o", "u", "t", "p", "u", "t", " ", "o", "f", " ", "t", "h", "e", " ", "c",
    "o", "m", "m", "a", "n", "d", "?">>

\* "Execute NPX -y Prettier@3.4.2 temp_README.md | SHA256SUM. What is printed?"
T_prettier_upper ==
  <<"E", "x", "e", "c", "u", "t", "e", " ", "N", "P", "X", " ", "-", "y", " ", "P",
    "r", "e", "t", "t", "i", "e", "r", "@", "3", ".", "4", ".", "2", " ", "t", "e",
    "m", "p", "_", "R", "E", "A", "D", "M", "E", ".", "m", "d", " ", "|", " ", "S",
    "H", "A", "2", "5", "6", "S", "U", "M", ".", " ", "W", "h", "a", "t", " ", "i",
    "s", " ", "p", "r", "i", "n", "t", "e", "d", "?">>

\* "Use Multi-Cursor editing to turn the file into one JSON object. What is its JSONHash?"
T_multi_cursor ==
  <<"U", "s", "e", " ", "M", "u", "l", "t", "i", "-", "C", "u", "r", "s", "o", "r",
    " ", "e", "d", "i", "t", "i", "n", "g", " ", "t", "o", " ", "t", "u", "r", "n",
    " ", "t", "h", "e", " ", "f", "i", "l", "e", " ", "i", "n", "t", "o", " ", "o",
    "n", "e", " ", "J", "S", "O", "N", " ", "o", "b", "j", "e", "c", "t", ".", " ",
    "W", "h", "a", "t", " ", "i", "s", " ", "i", "t", "s", " ", "J", "S", "O", "N",
    "H", "a", "s", "h", "?">>

\* "Use multi-cursor editing to turn the file into JSON. What is the hash?"
T_multi_cursor_hash ==
  <<"U", "s", "e", " ", "m", "u", "l", "t", "i", "-", "c", "u", "r", "s", "o", "r",
    " ", "e", "d", "i", "t", "i", "n", "g", " ", "t", "o", " ", "t", "u", "r", "n",
    " ", "t", "h", "e", " ", "f", "i", "l", "e", " ", "i", "n", "t", "o", " ", "J",
    "S", "O", "N", ".", " ", "W", "h", "a", "t", " ", "i", "s", " ", "t", "h", "e",
    " ", "h", "a", "s", "h", "?">>

\* "How many Wednesdays are there in the date range 1985-09-10 to 2011-10-02?"
T_wednesdays ==
  <<"H", "o", "w", " ", "m", "a", "n", "y", " ", "W", "e", "d", "n", "e", "s", "d",
    "a", "y", "s", " ", "a", "r", "e", " ", "t", "h", "e", "r", "e", " ", "i", "n",
    " ", "t", "h", "e", " ", "d", "a", "t", "e", " ", "r", "a", "n", "g", "e", " ",
    "1", "9", "8", "5", "-", "0", "9", "-", "1", "0", " ", "t", "o", " ", "2", "0",
    "1", "1", "-", "1", "0", "-", "0", "2", "?">>

\* "What is the value in the "answer" column of the CSV file?"
T_csv ==
  <<"W", "h", "a", "t", " ", "i", "s", " ", "t", "h", "e", " ", "v", "a", "l", "u",
    "e", " ", "i", "n", " ", "t", "h", "e", " ", "\"", "a", "n", "s", "w", "e", "r",
    "\"", " ", "c", "o", "l", "u", "m", "n", " ", "o", "f", " ", "t", "h", "e", " ",
    "C", "S", "V", " ", "f", "i", "l", "e", "?">>

\* "run sha256sum temp_README.md. What is the output?"
T_sha ==
  <<"r", "u", "n", " ", "s", "h", "a", "2", "5", "6", "s", "u", "m", " ", "t", "e",
    "m", "p", "_", "R", "E", "A", "D", "M", "E", ".", "m", "d", ".", " ", "W", "h",
    "a", "t", " ", "i", "s", " ", "t", "h", "e", " ", "o", "u", "t", "p", "u", "t",
    "?">>

\* "run sha256sum --tag temp_README.md. What is the output?"
T_sha_flag ==
  <<"r", "u", "n", " ", "s", "h", "a", "2", "5", "6", "s", "u", "m", " ", "-",
    "-", "t", "a", "g", " ", "t", "e", "m", "p", "_", "R", "E", "A", "D", "M",
    "E", ".", "m", "d", ".", " ", "W", "h", "a", "t", " ", "i", "s", " ", "t",
    "h", "e", " ", "o", "u", "t", "p", "u", "t", "?">>

\* "run sha256sum foo temp_README.md. What is the output?"
T_sha_unknown ==
  <<"r", "u", "n", " ", "s", "h", "a", "2", "5", "6", "s", "u", "m", " ", "f", "o",
    "o", " ", "t", "e", "m", "p", "_", "R", "E", "A", "D", "M", "E", ".", "m", "d",
    ".", " ", "W", "h", "a", "t", " ", "i", "s", " ", "t", "h", "e", " ", "o", "u",
    "t", "p", "u", "t", "?">>

\* "run npx -y prettier@3.4.2 README.md. What is the output?"
T_npx_only ==
  <<"r", "u", "n", " ", "n", "p", "x", " ", "-", "y", " ", "p", "r", "e", "t", "t",
    "i", "e", "r", "@", "3", ".", "4", ".", "2", " ", "R", "E", "A", "D", "M", "E",
    ".", "m", "d", ".", " ", "W", "h", "a", "t", " ", "i", "s", " ", "t", "h", "e",
    " ", "o", "u", "t", "p", "u", "t", "?">>

\* "run npx -y prettier@3.4.2 --write temp_README.md. What is the output?"
T_npx_flag ==
  <<"r", "u", "n", " ", "n", "p", "x", " ", "-", "y", " ", "p", "r", "e", "t", "t",
    "i", "e", "r", "@", "3", ".", "4", ".", "2", " ", "-", "-", "w", "r", "i", "t",
    "e", " ", "t", "e", "m", "p", "_", "R", "E", "A", "D", "M", "E", ".", "m", "d",
    ".", " ", "W", "h", "a", "t", " ", "i", "s", " ", "t", "h", "e", " ", "o", "u",
    "t", "p", "u", "t", "?">>

\* "run npx -y evil@1.0.0 temp_README.md. What is the output?"
T_npx_evil ==
  <<"r", "u", "n", " ", "n", "p", "x", " ", "-", "y", " ", "e", "v", "i", "l", "@",
    "1", ".", "0", ".", "0", " ", "t", "e", "m", "p", "_", "R", "E", "A", "D", "M",
    "E", ".", "m", "d", ".", " ", "W", "h", "a", "t", " ", "i", "s", " ", "t", "h",
    "e", " ", "o", "u", "t", "p", "u", "t", "?">>

\* "run npx -y xprettier@3.4.2 temp_README.md. What is the output?"
T_npx_lookalike ==
  <<"r", "u", "n", " ", "n", "p", "x", " ", "-", "y", " ", "x", "p", "r", "e", "t",
    "t", "i", "e", "r", "@", "3", ".", "4", ".", "2", " ", "t", "e", "m", "p", "_",
    "R", "E", "A", "D", "M", "E", ".", "m", "d", ".", " ", "W", "h", "a", "t", " ",
    "i", "s", " ", "t", "h", "e", " ", "o", "u", "t", "p", "u", "t", "?">>

\* "Execute rm temp_README.md. What happens?"
T_rm ==
  <<"E", "x", "e", "c", "u", "t", "e", " ", "r", "m", " ", "t", "e", "m", "p", "_",
    "R", "E", "A", "D", "M", "E", ".", "m", "d", ".", " ", "W", "h", "a", "t", " ",
    "h", "a", "p", "p", "e", "n", "s", "?">>

\* "command: sha256sum temp_README.md | rm temp_README.md. What is shown?"
T_pipe_rm ==
  <<"c", "o", "m", "m", "a", "n", "d", ":", " ", "s", "h", "a", "2", "5", "6", "s",
    "u", "m", " ", "t", "e", "m", "p", "_", "R", "E", "A", "D", "M", "E", ".", "m",
    "d", " ", "|", " ", "r", "m", " ", "t", "e", "m", "p", "_", "R", "E", "A", "D",
    "M", "E", ".", "m", "d", ".", " ", "W", "h", "a", "t", " ", "i", "s", " ", "s",
    "h", "o", "w", "n", "?">>

\* "run sha256sum temp_README.md | sha256sum. What is the output?"
T_pipe2 ==
  <<"r", "u", "n", " ", "s", "h", "a", "2", "5", "6", "s", "u", "m", " ", "t", "e",
    "m", "p", "_", "R", "E", "A", "D", "M", "E", ".", "m", "d", " ", "|", " ", "s",
    "h", "a", "2", "5", "6", "s", "u", "m", ".", " ", "W", "h", "a", "t", " ", "i",
    "s", " ", "t", "h", "e", " ", "o", "u", "t", "p", "u", "t", "?">>

\* "run sha256sum temp_README.md | sha256sum | sha256sum. What is the output?"
T_pipe3 ==
  <<"r", "u", "n", " ", "s", "h", "a", "2", "5", "6", "s", "u", "m", " ", "t", "e",
    "m", "p", "_", "R", "E", "A", "D", "M", "E", ".", "m", "d", " ", "|", " ", "s",
    "h", "a", "2", "5", "6", "s", "u", "m", " ", "|", " ", "s", "h", "a", "2", "5",
    "6", "s", "u", "m", ".", " ", "W", "h", "a", "t", " ", "i", "s", " ", "t", "h",
    "e", " ", "o", "u", "t", "p", "u", "t", "?">>

\* "run sha256sum temp_README.md | | sha256sum. What is the output?"
T_pipe_empty ==
  <<"r", "u", "n", " ", "s", "h", "a", "2", "5", "6", "s", "u", "m", " ", "t", "e",
    "m", "p", "_", "R", "E", "A", "D", "M", "E", ".", "m", "d", " ", "|", " ", "|",
    " ", "s", "h", "a", "2", "5", "6", "s", "u", "m", ".", " ", "W", "h", "a", "t",
    " ", "i", "s", " ", "t", "h", "e", " ", "o", "u", "t", "p", "u", "t", "?">>

\* "Please run sha256sum temp_README.md and report the digest."
T_no_what ==
  <<"P", "l", "e", "a", "s", "e", " ", "r", "u", "n", " ", "s", "h", "a", "2", "5",
    "6", "s", "u", "m", " ", "t", "e", "m", "p", "_", "R", "E", "A", "D", "M", "E",
    ".", "m", "d", " ", "a", "n", "d", " ", "r", "e", "p", "o", "r", "t", " ", "t",
    "h", "e", " ", "d", "i", "g", "e", "s", "t", ".">>

(***************************************************************************)
(* Restricted command handler: command extraction and the allow-list.      *)
(***************************************************************************)
Range(s) == {s[i] : i \in DOMAIN s}

\* the character class [\w\s\-@\.|\d] of the command patterns
CommandChars == WordChars \cup Whitespace \cup {"-", "@", ".", "|"}

\* command_patterns, in declaration order: the trigger word and the
\* characters of the separator run that follows it
command_patterns ==
  << [trigger |-> K_run, seps |-> Whitespace],
     [trigger |-> K_execute, seps |-> Whitespace],
     [trigger |-> K_command, seps |-> Whitespace \cup {":"}] >>

\* the first index from p on whose character is outside S (Len + 1 if none)
RunEnd(text, p, S) ==
  LET out == {i \in p..Len(text) : text[i] \notin S}
  IN  IF out = {} THEN Len(text) + 1 ELSE SetMin(out)

\* the positions of a "." that \.\s+What matches (re.IGNORECASE)
WhatDots(text) ==
  {j \in 1..Len(text) :
     /\ text[j] = "."
     /\ LET w == RunEnd(text, j + 1, Whitespace)
        IN  /\ w > j + 1
            /\ w + Len(K_what) - 1 <= Len(text)
            /\ Lower(SubSeq(text, w, w + Len(K_what) - 1)) = K_what}

\* re.search(pattern, text, re.IGNORECASE): <<>> if there is no match, else
\* <<group(1)>> of the leftmost match, both quantifiers greedy
SearchPattern(text, pat) ==
  LET L == Len(pat.trigger)
      dots == WhatDots(text)
      \* <<k, j>>: k separator characters, then the group up to j - 1, "." at j
      fits(i) ==
        {kj \in (1..(RunEnd(text, i + L, pat.seps) - (i + L))) \X dots :
           /\ kj[2] - 1 >= i + L + kj[1]
           /\ RunEnd(text, i + L + kj[1], CommandChars) >= kj[2]}
      starts ==
        {i \in 1..(Len(text) - L + 1) :
           Lower(SubSeq(text, i, i + L - 1)) = pat.trigger /\ fits(i) # {}}
  IN  IF starts = {} THEN <<>>
      ELSE LET i == SetMin(starts)
               k == SetMax({kj[1] : kj \in fits(i)})
               j == SetMax({kj[2] : kj \in {x \in fits(i) : x[1] = k}})
           IN  <<SubSeq(text, i + L + k, j - 1)>>

\* CommandHandler._extract_commands
extract_commands(question_text) ==
  LET hits ==
        {n \in DOMAIN command_patterns :
           SearchPattern(question_text, command_patterns[n]) # <<>>}
  IN  IF hits = {} THEN <<>>
      ELSE LET command_text ==
                 Strip(SearchPattern(question_text,
                                     command_patterns[SetMin(hits)])[1])
               pieces == SplitOn(command_text, "|")
           IN  IF "|" \in Range(command_text)
                 THEN [n \in DOMAIN pieces |-> Strip(pieces[n])]
                 ELSE <<command_text>>

\* CommandHandler.ALLOWED_COMMANDS
ALLOWED_COMMANDS ==
  << [command |-> K_npx, allowed_args |-> <<A_y, A_prettier_3_4_2>>],
     [command |-> K_sha256sum, allowed_args |-> <<>>] >>

\* command in self.ALLOWED_COMMANDS
IsAllowedCommand(command) ==
  \E n \in DOMAIN ALLOWED_COMMANDS : ALLOWED_COMMANDS[n].command = command

\* self.ALLOWED_COMMANDS[command]["allowed_args"]
AllowedArgs(command) ==
  Range(ALLOWED_COMMANDS[CHOOSE n \in DOMAIN ALLOWED_COMMANDS :
                           ALLOWED_COMMANDS[n].command = command].allowed_args)

\* cmd_str.split() with the file placeholders replaced by the file name
CmdParts(cmd_str, file_name) ==
  LET parts == SplitWs(cmd_str)
  IN  [i \in DOMAIN parts |->
         IF parts[i] = K_FILE \/ parts[i] = K_file_brace
           THEN file_name ELSE parts[i]]

\* the argument loop with an else branch that appends the argument
ArgVerdict_KeepUnknown(command, arg, file_name) ==
  IF arg = file_name THEN "keep"
  ELSE IF arg \in AllowedArgs(command) \/ StartsWith(arg, K_dashdash)
    THEN "keep"
  ELSE IF command = K_npx /\ "@" \in Range(arg)
    THEN IF \E allowed_pkg \in AllowedArgs(command) : Contains(arg, allowed_pkg)
           THEN "keep" ELSE "reject"
  ELSE "keep"

\* the argument loop with lines 127-128 testing `arg == allowed_pkg`
ArgVerdict_ExactPackage(command, arg, file_name) ==
  IF arg = file_name THEN "keep"
  ELSE IF arg \in AllowedArgs(command) \/ StartsWith(arg, K_dashdash)
    THEN "keep"
  ELSE IF command = K_npx /\ "@" \in Range(arg)
    THEN IF \E allowed_pkg \in AllowedArgs(command) : arg = allowed_pkg
           THEN "keep" ELSE "reject"
  ELSE "drop"

\* what the argument loop does with one argument: "keep" appends it to
\* final_cmd, "reject" returns the package error, "drop" does neither
ArgVerdict(command, arg, file_name) ==
  IF arg = file_name THEN "keep"
  ELSE IF arg \in AllowedArgs(command) \/ StartsWith(arg, K_dashdash)
    THEN "keep"
  ELSE IF command = K_npx /\ "@" \in Range(arg)
    THEN IF \E allowed_pkg \in AllowedArgs(command) : Contains(arg, allowed_pkg)
           THEN "keep" ELSE "reject"
  ELSE "drop"

\* One iteration of the loop of _execute_commands up to the subprocess call:
\* kind "run" carries final_cmd, the other kinds carry the string returned.
StageCheck(cmd_str, file_name) ==
  LET raw == SplitWs(cmd_str)
      none == <<>>
  IN  IF raw = <<>>
        THEN [kind |-> "exception", final_cmd |-> none,
              text |-> "Error executing commands: list index out of range"]
      ELSE
        LET command == raw[1]
            args == Tail(CmdParts(cmd_str, file_name))
            verdict(i) == ArgVerdict(command, args[i], file_name)
            rejected == {i \in DOMAIN args : verdict(i) = "reject"}
            kept == SelectSeq([i \in DOMAIN args |-> <<i, args[i]>>],
                              LAMBDA p : verdict(p[1]) = "keep")
        IN  IF ~IsAllowedCommand(command)
              THEN [kind |-> "command_not_allowed", final_cmd |-> none,
                    text |-> "Error: Command '" \o Str(command)
                             \o "' is not allowed for security reasons."]
            ELSE IF rejected # {}
              THEN [kind |-> "package_not_allowed", final_cmd |-> none,
                    text |-> "Error: Package '" \o Str(args[SetMin(rejected)])
                             \o "' is not allowed for security reasons."]
            ELSE [kind |-> "run", text |-> "",
                  final_cmd |-> <<command>> \o [i \in DOMAIN kept |-> kept[i][2]]]

(***************************************************************************)
(* JSON values as Python sees them after json.loads: t is the type, v the  *)
(* value (a string, a sequence of strings, or a function from keys to      *)
(* JSON values for a dict).                                                *)
(***************************************************************************)
JNull == [t |-> "null", v |-> ""]

JStr(s) == [t |-> "str", v |-> s]

JArr(a) == [t |-> "arr", v |-> a]

JObj(f) == [t |-> "obj", v |-> f]

\* dict.get(key, default); the caller has checked that d is a dict
Get(d, key, default) == IF key \in DOMAIN d.v THEN d.v[key] ELSE default

\* key in d and d[key]
HasTruthy(d, key) ==
  /\ key \in DOMAIN d.v
  /\ \/ d.v[key].t = "str" /\ d.v[key].v # ""
     \/ d.v[key].t = "arr" /\ d.v[key].v # <<>>
     \/ d.v[key].t = "obj" /\ DOMAIN d.v[key].v # {}

\* bool(x) of a JSON value
Truthy(x) ==
  \/ x.t = "str" /\ Len(x.v) # 0
  \/ x.t = "arr" /\ x.v # <<>>
  \/ x.t = "obj" /\ DOMAIN x.v # {}

\* item in x, for a list x of strings
InList(item, x) == \E i \in DOMAIN x.v : x.v[i] = item

\* the intent returned when classification fails: `error` and empty `actions`
ErrorIntent(message) ==
  JObj([error |-> JStr(message), actions |-> JArr(<<>>)])

(***************************************************************************)
(* The bounded input set: questions, uploads, and the replies of the       *)
(* generative service.                                                     *)
(***************************************************************************)
\* questions about routing
RouterQuestions ==
  {"prettier", "prettier_upper", "multi_cursor", "multi_cursor_hash",
   "wednesdays", "csv", "sha", "no_what"}

\* questions that carry a command pipeline
PipelineQuestions ==
  {"sha_unknown", "sha_flag", "npx_only", "npx_flag", "npx_evil", "npx_lookalike", "rm",
   "pipe_rm", "pipe2", "pipe3", "pipe_empty"}

QuestionIds == RouterQuestions \cup PipelineQuestions

\* the text of a question of the input set
QuestionText(q) ==
  CASE q = "prettier" -> T_prettier
    [] q = "prettier_upper" -> T_prettier_upper
    [] q = "multi_cursor" -> T_multi_cursor
    [] q = "multi_cursor_hash" -> T_multi_cursor_hash
    [] q = "wednesdays" -> T_wednesdays
    [] q = "csv" -> T_csv
    [] q = "sha" -> T_sha
    [] q = "no_what" -> T_no_what
    [] q = "sha_unknown" -> T_sha_unknown
    [] q = "sha_flag" -> T_sha_flag
    [] q = "npx_only" -> T_npx_only
    [] q = "npx_flag" -> T_npx_flag
    [] q = "npx_evil" -> T_npx_evil
    [] q = "npx_lookalike" -> T_npx_lookalike
    [] q = "rm" -> T_rm
    [] q = "pipe_rm" -> T_pipe_rm
    [] q = "pipe2" -> T_pipe2
    [] q = "pipe3" -> T_pipe3
    [] q = "pipe_empty" -> T_pipe_empty

\* the uploaded file names; <<>> is a request without a file
NoFile == <<>>

\* the uploads each question is asked with
Uploads(q) ==
  CASE q \in {"prettier", "multi_cursor", "sha"} -> {NoFile, N_README_md}
    [] q = "wednesdays" -> {NoFile, N_data_zip}
    [] q = "csv" -> {NoFile, N_data_zip, N_data_csv}
    [] OTHER -> {N_README_md}

\* the action vocabulary of the classifier schema
ActionNames ==
  <<"process_file", "execute_command", "process_json",
    "specialized_calculation">>

\* the list of the actions whose indexes are in S, in vocabulary order
ActionList(S) ==
  LET F[n \in 0..Len(ActionNames)] ==
        IF n = 0 THEN <<>>
        ELSE IF n \in S THEN Append(F[n - 1], ActionNames[n]) ELSE F[n - 1]
  IN  F[Len(ActionNames)]

Absent == [t |-> "absent", v |-> ""]

\* a dict of the fields that are present
Dict(fields) ==
  JObj([k \in {key \in DOMAIN fields : fields[key] # Absent} |-> fields[k]])

ActionsValues ==
  {Absent, JNull}
    \cup {JArr(ActionList(S)) :
            S \in {T \in SUBSET DOMAIN ActionNames : Cardinality(T) <= MaxActions}}

DateRangeValues ==
  {Absent}
    \cup {JArr([i \in 1..n |->
                  IF i = 1 THEN FormatIso(1985, 9, 10)
                  ELSE IF i = 2 THEN FormatIso(2011, 10, 2)
                  ELSE FormatIso(2020, 1, 1)]) :
            n \in 0..MaxDateRange}

\* the array of the end-to-end test
TestArray ==
  LET person(name, age) ==
        PyDict(<<Item(Texts.name, PyStr(name)), Item(Texts.age, PyInt(age))>>)
  IN  PyList(<<person(<<"A", "l", "i", "c", "e">>, 55),
               person(<<"B", "o", "b">>, 30),
               person(<<"C", "h", "a", "r", "l", "i", "e">>, 55)>>)

JsonDataValues ==
  {Absent, JStr(<<>>), JStr(dumps(TestArray, <<",">>, <<":">>))}

\* The structured arguments of the classifier's tool call, parsed, for
\* question q: values that are no dict, and dicts over the schema's fields.
\* csv_extraction is answered for the questions asked with an archive, a
\* calculation payload for the question about dates.
ParsedArguments(q) ==
  {JNull, JArr(<<"process_file">>), JStr("direct_answer")}
    \cup {Dict([question_type |-> qt, actions |-> ac, direct_answer |-> da,
                calculation_type |-> ct, date_range |-> dr, json_data |-> jd]) :
            qt \in IF q \in {"csv", "wednesdays"}
                     THEN {JStr("csv_extraction"), JStr("other")}
                     ELSE {JStr("other")},
            ac \in ActionsValues,
            da \in {Absent, JStr(""), JStr("42")},
            ct \in IF q = "wednesdays"
                     THEN {Absent, JStr("count_wednesdays"),
                           JStr("json_sorting"), JStr("other")}
                     ELSE {Absent},
            dr \in IF q = "wednesdays" THEN DateRangeValues ELSE {Absent},
            jd \in IF q = "wednesdays" THEN JsonDataValues ELSE {Absent}}

\* what the classification request for question q can come back with
ClassifierReplies(q) ==
  {[kind |-> k, arguments |-> JNull] :
     k \in {"status_error", "network_error", "timeout", "no_choices",
            "no_tool_call", "no_arguments", "malformed_arguments"}}
    \cup {[kind |-> "ok", arguments |-> a] : a \in ParsedArguments(q)}

\* the captured standard output of a subprocess, as text
O_empty == <<>>

O_digest == <<" ", "9", "f", "8", "6", "d", "0", "8", " ", " ", "-", "\n">>

\* what subprocess.run can come back with: the process could not be started
\* (OSError), or it exited with a return code and captured output
RunResults ==
  {[kind |-> "oserror", returncode |-> 1, stdout |-> O_empty, stderr |-> ""]}
    \cup {[kind |-> "exit", returncode |-> rc, stdout |-> out,
           stderr |-> IF rc = 0 THEN "" ELSE "boom"] :
            rc \in {0, 1}, out \in {O_empty, O_digest}}

(***************************************************************************)
(* The cleanup of the finalizer's reply                                    *)
(* (QuestionProcessor._extract_final_answer). The reply is a text.         *)
(***************************************************************************)
MaxLines == 4

\* the character U+0060 (grave accent), which a string of this language
\* cannot hold
Grave == "U+0060"

\* three grave accents
K_fence ==
  <<Grave, Grave, Grave>>

\* line 448: the labels a line is tested for
AnswerLabels ==
  {<<"a", "n", "s", "w", "e", "r", ":">>,
   <<"t", "h", "e", " ", "a", "n", "s", "w", "e", "r", " ", "i", "s", ":">>,
   <<"r", "e", "s", "u", "l", "t", ":">>}

\* lines 473-474: the phrases of introductory text
IntroPhrases ==
  {<<"h", "e", "r", "e", "'", "s">>,
   <<"t", "o", " ", "s", "o", "l", "v", "e">>,
   <<"i", "'", "l", "l">>,
   <<"l", "e", "t", " ", "m", "e">>,
   <<"f", "i", "r", "s", "t">>,
   <<"b", "a", "s", "e", "d", " ", "o", "n">>}

RECURSIVE JoinLines(_)
\* "\n".join(lines)
JoinLines(lines) ==
  IF lines = <<>> THEN <<>>
  ELSE IF Len(lines) = 1 THEN lines[1]
  ELSE lines[1] \o <<"\n">> \o JoinLines(Tail(lines))

\* line.split(":", 1)[1] of a line that holds a colon
AfterColon(line) ==
  LET at == SetMin({i \in DOMAIN line : line[i] = ":"})
  IN  SubSeq(line, at + 1, Len(line))

\* lines 453-462: the lines collected while in_code_block is true; a line
\* that starts with the fence toggles in_code_block and is not collected
CodeBlocks(lines) ==
  LET scan[n \in 0..Len(lines)] ==
        IF n = 0 THEN [in_code_block |-> FALSE, code_blocks |-> <<>>]
        ELSE LET before == scan[n - 1]
             IN  IF StartsWith(lines[n], K_fence)
                   THEN [before EXCEPT !.in_code_block = ~@]
                 ELSE IF before.in_code_block
                   THEN [before EXCEPT !.code_blocks = Append(@, lines[n])]
                 ELSE before
  IN  scan[Len(lines)].code_blocks

\* lines 469-478: the lines from the first one that holds no introductory
\* phrase
CleanLines(lines) ==
  LET kept == {i \in DOMAIN lines :
                 ~\E phrase \in IntroPhrases :
                    Contains(Lower(lines[i]), phrase)}
  IN  IF kept = {} THEN <<>> ELSE SubSeq(lines, SetMin(kept), Len(lines))

\* QuestionProcessor._extract_final_answer
extract_final_answer(response) ==
  LET lines == SplitOn(Strip(response), "\n")
      labelled == {i \in DOMAIN lines :
                     \E label \in AnswerLabels :
                       StartsWith(Lower(lines[i]), label)}
  IN  IF labelled # {}
        THEN Strip(AfterColon(lines[SetMin(labelled)]))
      ELSE IF Contains(response, K_fence) /\ CodeBlocks(lines) # <<>>
        THEN JoinLines(CodeBlocks(lines))
      ELSE IF CleanLines(lines) # <<>>
        THEN JoinLines(CleanLines(lines))
      ELSE response

\* "Answer: 42"
L_answer ==
  <<"A", "n", "s", "w", "e", "r", ":", " ", "4", "2">>

\* "RESULT: a: b"
L_result ==
  <<"R", "E", "S", "U", "L", "T", ":", " ", "a", ":", " ", "b">>

\* "The answer is: 9"
L_the_answer ==
  <<"T", "h", "e", " ", "a", "n", "s", "w", "e", "r", " ", "i", "s", ":", " ",
    "9">>

\* " answer: 7"
L_indented ==
  <<" ", "a", "n", "s", "w", "e", "r", ":", " ", "7">>

\* "```"
L_fence ==
  <<Grave, Grave, Grave>>

\* "x = 1"
L_code ==
  <<"x", " ", "=", " ", "1">>

\* "Here's the result"
L_heres ==
  <<"H", "e", "r", "e", "'", "s", " ", "t", "h", "e", " ", "r", "e", "s", "u",
    "l", "t">>

\* "42 comes first"
L_first ==
  <<"4", "2", " ", "c", "o", "m", "e", "s", " ", "f", "i", "r", "s", "t">>

\* ""
L_blank == <<>>

\* what the finalize request can come back with; content is the reply text
FinalizerReplies ==
  {[kind |-> k, content |-> <<>>] :
     k \in {"status_error", "network_error", "timeout", "no_choices"}}
    \cup {[kind |-> "ok", content |-> c] :
            c \in {<<"4", "2">>, L_answer \o <<"\n">>}}

(***************************************************************************)
(* Router guards (QuestionProcessor.process_question).                     *)
(***************************************************************************)
\* the guard of line 120 without the .lower() calls
IsPrettierQuestion_CaseSensitive(text) ==
  /\ Contains(text, K_npx)
  /\ Contains(text, K_prettier)
  /\ Contains(text, K_sha256sum)

\* line 120: "npx", "prettier" and "sha256sum" in question.lower()
IsPrettierQuestion(text) ==
  /\ Contains(Lower(text), K_npx)
  /\ Contains(Lower(text), K_prettier)
  /\ Contains(Lower(text), K_sha256sum)

\* the guard of lines 126-127 without the .lower() calls
IsMultiCursorQuestion_CaseSensitive(text) ==
  /\ Contains(text, K_multi_cursor)
  /\ Contains(text, K_json)
  /\ Contains(text, K_jsonhash) \/ Contains(text, K_hash)

\* lines 126-127: "multi-cursor", "json" and ("jsonhash" or "hash")
IsMultiCursorQuestion(text) ==
  /\ Contains(Lower(text), K_multi_cursor)
  /\ Contains(Lower(text), K_json)
  /\ Contains(Lower(text), K_jsonhash) \/ Contains(Lower(text), K_hash)

\* line 148: "multi-cursor" and "jsonhash"
IsMultiCursorJsonhash(text) ==
  /\ Contains(Lower(text), K_multi_cursor)
  /\ Contains(Lower(text), K_jsonhash)

\* what the router computes from the text of each question of the input set
Routing ==
  [q \in QuestionIds |->
     [prettier |-> IsPrettierQuestion(QuestionText(q)),
      multi_cursor |-> IsMultiCursorQuestion(QuestionText(q)),
      jsonhash |-> IsMultiCursorJsonhash(QuestionText(q)),
      commands |-> extract_commands(QuestionText(q))]]

(***************************************************************************)
(* State.                                                                  *)
(***************************************************************************)
VARIABLES
  ai_proxy_token,   \* whether the processor was built with a token
  question,         \* the question of the request (its key in QuestionText)
  temp_file_path,   \* the path of the saved upload, NoFile if there is none
  pc,               \* where the request is
  ai_reply,         \* the kind of reply the classification request got
  analysis,         \* the intent
  answer,           \* the string process_question returns
  exc,              \* the exception process_question raised, "" if none
  calls,            \* the calls made for the request, in order
  commands,         \* the pipeline _execute_commands runs
  stage,            \* the stage _execute_commands is at
  result,           \* the captured output piped to the next stage
  started,          \* the processes started, in order
  http,             \* the response of the front door
  workdir,          \* the working directory of the command handler
  prompt,           \* the prompt of the finalize request, <<>> before it
  temp_dirs,        \* the directories extract_from_zip made that still exist
  csv_file,         \* what find_file_by_extension returned, "" before it
  file_chars,       \* the characters of the text the raw read got, -1 before
  fs,               \* the files of the server's directory, by path
  reqs,             \* the concurrent requests of the front door
  call              \* a handler call: its arguments and what it returned

vars ==
  <<ai_proxy_token, question, temp_file_path, pc, ai_reply, analysis, answer,
    exc, calls, commands, stage, result, started, http, workdir, prompt,
    temp_dirs, csv_file, file_chars, fs, reqs, call>>

\* what file pre-processing leaves behind
upload == <<temp_dirs, csv_file, file_chars>>

\* the state of the other specifications of this module, which the requests
\* of Spec leave alone
aux == <<fs, reqs, call>>

NoCall == [fn |-> "", args |-> <<>>, ret |-> <<>>]

NoResult == [piped |-> FALSE, data |-> O_empty]

Call(fn, ret) == [fn |-> fn, ret |-> ret]

Called(fn) == \E i \in DOMAIN calls : calls[i].fn = fn

\* QuestionProcessor.__init__ and the module state of main.py, before a
\* request
RouterInit ==
  /\ ai_proxy_token \in BOOLEAN
  /\ question = ""
  /\ temp_file_path = NoFile
  /\ pc = "idle"
  /\ ai_reply = ""
  /\ analysis = JNull
  /\ answer = ""
  /\ exc = ""
  /\ calls = <<>>
  /\ commands = <<>>
  /\ stage = 0
  /\ result = NoResult
  /\ started = <<>>
  /\ http = [status |-> 0, body |-> ""]
  /\ workdir = "none"
  /\ prompt = <<>>
  /\ temp_dirs = 0
  /\ csv_file = ""
  /\ file_chars = -1

Init ==
  /\ RouterInit
  /\ fs = {}
  /\ reqs = <<>>
  /\ call = NoCall

\* save_upload_file: the path the upload is saved under
save_upload_file(filename) == K_temp \o filename

\* answer_question up to the call of process_question: the upload is saved
AnswerQuestion ==
  /\ pc = "idle"
  /\ \E q \in QuestionIds :
       \E f \in Uploads(q) :
         /\ question' = q
         /\ temp_file_path' = IF f = NoFile THEN NoFile ELSE save_upload_file(f)
  /\ pc' = "route"
  /\ UNCHANGED <<workdir, prompt, upload, aux>>
  /\ UNCHANGED <<ai_proxy_token, ai_reply, analysis, answer, exc, calls,
                 commands, stage, result, started, http>>

(***************************************************************************)
(* The literal short-circuits and their handlers.                          *)
(***************************************************************************)
\* a with block that leaves the directory behind
TemporaryDirectoryExit_Leak == "exists"

\* tempfile.TemporaryDirectory as a context manager (lines 48 and 179):
\* leaving the with block, by return or by exception, removes the directory
TemporaryDirectoryExit == "removed"

\* cwd=temp_dir (lines 189, 199) and cwd=working_dir (lines 138, 151) of
\* subprocess.run: the directory the process is started in
WorkingDir == "temp_dir"

\* CommandHandler.test_npx_prettier: copy_ok is whether shutil.copy worked,
\* run1 and run2 what the two subprocess.run calls came back with.
\* The processes started, and the string returned.
NpxPrettierArgv(file_path) ==
  <<K_npx, A_y, A_prettier_3_4_2, Basename(file_path)>>

test_npx_prettier_started(file_path, copy_ok, run1, run2) ==
  IF ~copy_ok \/ run1.kind = "oserror" THEN <<>>
  ELSE <<[stage |-> 1, final_cmd |-> NpxPrettierArgv(file_path),
          stdin |-> NoResult, returncode |-> run1.returncode,
          stderr |-> run1.stderr, cwd |-> WorkingDir]>>
       \o IF run1.returncode # 0 \/ run2.kind = "oserror" THEN <<>>
          ELSE <<[stage |-> 2, final_cmd |-> <<K_sha256sum>>,
                  stdin |-> [piped |-> TRUE, data |-> run1.stdout],
                  returncode |-> run2.returncode, stderr |-> run2.stderr,
                  cwd |-> WorkingDir]>>

test_npx_prettier(file_path, copy_ok, run1, run2) ==
  IF ~copy_ok \/ run1.kind = "oserror"
    THEN "Error running npx prettier | sha256sum: [Errno 2]"
  ELSE IF run1.returncode # 0
    THEN "Error running prettier: " \o run1.stderr
  ELSE IF run2.kind = "oserror"
    THEN "Error running npx prettier | sha256sum: [Errno 2]"
  ELSE IF run2.returncode # 0
    THEN "Error running sha256sum: " \o run2.stderr
  ELSE Str(Strip(run2.stdout))

\* JSONProcessorHandler.process_multi_cursor_json: the strings it can return
\* (the local hash, the hash or the error of the hash service, its own errors)
MultiCursorResults ==
  {"sha256(normalized json)", "hash from service",
   "Error from hash service: 500", "Error calculating JSON hash: timeout",
   "Error processing multi-cursor JSON: [Errno 2]"}

\* lines 119-122
ShortCircuitPrettier ==
  /\ pc = "route"
  /\ temp_file_path # NoFile
  /\ Routing[question].prettier
  /\ \E copy_ok \in BOOLEAN, run1 \in RunResults, run2 \in RunResults :
       /\ answer' = test_npx_prettier(temp_file_path, copy_ok, run1, run2)
       /\ started' =
            test_npx_prettier_started(temp_file_path, copy_ok, run1, run2)
  /\ calls' = Append(calls, Call("test_npx_prettier", answer'))
  /\ pc' = "returned"
  /\ workdir' = TemporaryDirectoryExit
  /\ UNCHANGED <<prompt, upload, aux>>
  /\ UNCHANGED <<ai_proxy_token, question, temp_file_path, ai_reply, analysis,
                 exc, commands, stage, result, http>>

\* lines 124-129
ShortCircuitMultiCursor ==
  /\ pc = "route"
  /\ ~(temp_file_path # NoFile /\ Routing[question].prettier)
  /\ temp_file_path # NoFile
  /\ Routing[question].multi_cursor
  /\ answer' \in MultiCursorResults
  /\ calls' = Append(calls, Call("process_multi_cursor_json", answer'))
  /\ pc' = "returned"
  /\ UNCHANGED <<workdir, prompt, upload, aux>>
  /\ UNCHANGED <<ai_proxy_token, question, temp_file_path, ai_reply, analysis,
                 exc, commands, stage, result, started, http>>

(***************************************************************************)
(* Classification.                                                         *)
(***************************************************************************)
\* _analyze_question_with_ai with a JSONDecodeError branch that returns the
\* error alone
analyze_question_with_ai_NoActions(reply) ==
  CASE reply.kind = "no_token" -> ErrorIntent("AI Proxy token not configured")
    [] reply.kind = "status_error" ->
         ErrorIntent("Error from AI service: Status 500")
    [] reply.kind \in {"network_error", "timeout"} ->
         ErrorIntent("Error connecting to AI service: " \o reply.kind)
    [] reply.kind \in {"no_choices", "no_tool_call", "no_arguments"} ->
         ErrorIntent("Failed to extract analysis from AI response")
    [] reply.kind = "malformed_arguments" ->
         JObj([error |-> JStr("Failed to parse AI response")])
    [] reply.kind = "ok" -> reply.arguments

\* QuestionProcessor._analyze_question_with_ai: the intent returned for a
\* reply of the service (reply.kind is "no_token" when no request is made)
analyze_question_with_ai(reply) ==
  CASE reply.kind = "no_token" -> ErrorIntent("AI Proxy token not configured")
    [] reply.kind = "status_error" ->
         ErrorIntent("Error from AI service: Status 500")
    [] reply.kind \in {"network_error", "timeout"} ->
         ErrorIntent("Error connecting to AI service: " \o reply.kind)
    [] reply.kind \in {"no_choices", "no_tool_call", "no_arguments"} ->
         ErrorIntent("Failed to extract analysis from AI response")
    [] reply.kind = "malformed_arguments" ->
         ErrorIntent("Failed to parse AI response")
    [] reply.kind = "ok" -> reply.arguments

\* lines 131-132 with a classification request that is sent again when the
\* service could not be reached or answered with an error status
Classify_Retrying ==
  /\ pc = "route"
  /\ ~(temp_file_path # NoFile /\ Routing[question].prettier)
  /\ ~(temp_file_path # NoFile /\ Routing[question].multi_cursor)
  /\ IF ~ai_proxy_token
       THEN /\ ai_reply' = "no_token"
            /\ analysis' =
                 analyze_question_with_ai([kind |-> "no_token",
                                           arguments |-> JNull])
            /\ calls' = Append(calls, Call("_analyze_question_with_ai", ""))
       ELSE \E reply \in ClassifierReplies(question) :
              /\ ai_reply' = reply.kind
              /\ analysis' = analyze_question_with_ai(reply)
              /\ calls' = calls \o <<Call("_analyze_question_with_ai", ""),
                                     Call("post:classify", "")>>
                            \o IF reply.kind \in {"status_error",
                                                  "network_error", "timeout"}
                                 THEN <<Call("post:classify", "")>>
                                 ELSE <<>>
  /\ pc' = "classified"
  /\ UNCHANGED <<workdir, prompt, upload, aux>>
  /\ UNCHANGED <<ai_proxy_token, question, temp_file_path, answer, exc,
                 commands, stage, result, started, http>>

\* lines 131-132
Classify ==
  /\ pc = "route"
  /\ ~(temp_file_path # NoFile /\ Routing[question].prettier)
  /\ ~(temp_file_path # NoFile /\ Routing[question].multi_cursor)
  /\ IF ~ai_proxy_token
       THEN /\ ai_reply' = "no_token"
            /\ analysis' =
                 analyze_question_with_ai([kind |-> "no_token",
                                           arguments |-> JNull])
            /\ calls' = Append(calls, Call("_analyze_question_with_ai", ""))
       ELSE \E reply \in ClassifierReplies(question) :
              /\ ai_reply' = reply.kind
              /\ analysis' = analyze_question_with_ai(reply)
              /\ calls' = calls \o <<Call("_analyze_question_with_ai", ""),
                                     Call("post:classify", "")>>
  /\ pc' = "classified"
  /\ UNCHANGED <<workdir, prompt, upload, aux>>
  /\ UNCHANGED <<ai_proxy_token, question, temp_file_path, answer, exc,
                 commands, stage, result, started, http>>

(***************************************************************************)
(* File pre-processing.                                                    *)
(***************************************************************************)
\* max_length of _process_file
max_length == 8000

\* the lengths of the raw text read from the upload
RawLengths == {0, 120, max_length, max_length + 1}

\* a text of n characters, named by its length
Text(n) == IF n = 0 THEN "" ELSE "text(" \o ToString(n) \o ")"

\* lines 282-285 left out: the raw read without the truncation
RawRead_Untruncated(n) == Text(n)

\* lines 278-288: the raw read of a file whose text has n characters
RawRead(n) ==
  IF n > max_length
    THEN Text(max_length) \o "\n...[content truncated]..."
    ELSE Text(n)

\* CSVHandler.extract_from_csv: the strings it can return
CsvResults ==
  {"test_answer", "Column 'answer' not found. Available columns: id, value",
   "Error reading CSV file: No columns to parse from file"}

\* QuestionProcessor._process_file: what it can do for the upload at
\* file_path, whatever the upload holds: raise, or return content
process_file(file_path, an) ==
  LET question_type == Get(an, "question_type", JStr("unknown"))
      csv_extraction ==
        question_type.t = "str" /\ question_type.v = "csv_extraction"
      \* lines 277-288: the raw read, after find_file_by_extension returned
      \* found ("" when it was not called)
      raw(temp_dir, found) ==
        {[raised |-> "", content |-> RawRead(n), temp_dir |-> temp_dir,
          csv_file |-> found, chars |-> n] : n \in RawLengths}
          \cup {[raised |-> "", temp_dir |-> temp_dir, csv_file |-> found,
                 chars |-> -1,
                 content |-> "Error reading file: [Errno 13] Permission denied"]}
      csv(temp_dir, found) ==
        {[raised |-> "", content |-> c, temp_dir |-> temp_dir,
          csv_file |-> found, chars |-> -1] : c \in CsvResults}
  IN  IF csv_extraction /\ EndsWith(Lower(file_path), K_zip)
        \* extract_from_zip makes the directory and then raises, or a CSV
        \* file is found in the directory, or none is
        THEN {[raised |-> "BadZipFile", content |-> "", temp_dir |-> TRUE,
               csv_file |-> "", chars |-> -1]}
               \cup csv(TRUE, "found") \cup raw(TRUE, "none")
      ELSE IF csv_extraction /\ EndsWith(Lower(file_path), K_csv)
        THEN csv(FALSE, "")
      ELSE raw(FALSE, "")

\* lines 134-140
\* the extraction done in a tempfile.TemporaryDirectory() block, as
\* CSVHandler.extract_from_zip does it: the directory is gone afterwards
extract_from_zip_Temporary(dirs) == dirs

\* file_utils.extract_from_zip without an extract_path: tempfile.mkdtemp()
\* makes a directory, which nothing removes; dirs counts the directories
extract_from_zip(dirs) == dirs + 1

PreprocessFile ==
  /\ pc = "classified"
  /\ IF temp_file_path = NoFile
       THEN /\ pc' = "dispatch"
            /\ UNCHANGED <<analysis, exc, calls, upload>>
     ELSE IF analysis.t # "obj"
       THEN /\ pc' = "raised"
            /\ exc' = "AttributeError"
            /\ UNCHANGED <<analysis, calls, upload>>
     ELSE IF Get(analysis, "actions", JArr(<<>>)).t # "arr"
       THEN /\ pc' = "raised"
            /\ exc' = "TypeError"
            /\ UNCHANGED <<analysis, calls, upload>>
     ELSE IF InList("process_file", Get(analysis, "actions", JArr(<<>>)))
       THEN \E out \in process_file(temp_file_path, analysis) :
              /\ temp_dirs' = IF out.temp_dir
                                THEN extract_from_zip(temp_dirs) ELSE temp_dirs
              /\ csv_file' = out.csv_file
              /\ file_chars' = out.chars
              /\ IF out.raised # ""
                THEN /\ pc' = "raised"
                     /\ exc' = out.raised
                     /\ calls' = Append(calls, Call("_process_file", ""))
                     /\ UNCHANGED analysis
                ELSE /\ pc' = "dispatch"
                     /\ calls' = Append(calls, Call("_process_file", out.content))
                     /\ analysis' =
                          IF out.content # ""
                            THEN JObj([k \in DOMAIN analysis.v \cup {"file_content"} |->
                                         IF k = "file_content"
                                           THEN JStr(out.content)
                                           ELSE analysis.v[k]])
                            ELSE analysis
                     /\ UNCHANGED exc
     ELSE /\ pc' = "dispatch"
          /\ UNCHANGED <<analysis, exc, calls, upload>>
  /\ UNCHANGED <<workdir, prompt, aux>>
  /\ UNCHANGED <<ai_proxy_token, question, temp_file_path, ai_reply, answer,
                 commands, stage, result, started, http>>

(***************************************************************************)
(* Dispatch.                                                               *)
(***************************************************************************)
\* the string a handler returns ends the request
Return(fn, ret) ==
  /\ answer' = ret
  /\ calls' = Append(calls, Call(fn, ret))
  /\ pc' = "returned"
  /\ UNCHANGED exc

\* an exception leaves process_question
Raise(e) ==
  /\ pc' = "raised"
  /\ exc' = e
  /\ UNCHANGED <<answer, calls>>

\* lines 39-52 of CommandHandler.process_command_question, from line 144
DispatchCommand ==
  IF temp_file_path = NoFile
    THEN /\ Return("process_command_question",
                   "Error: No file was uploaded for command execution.")
         /\ UNCHANGED <<commands, stage, workdir>>
  ELSE IF Routing[question].commands = <<>>
    THEN /\ Return("process_command_question",
                   "Error: Could not identify command to execute from question.")
         /\ UNCHANGED <<commands, stage, workdir>>
  ELSE \E copy_ok \in BOOLEAN :
         IF copy_ok
           THEN /\ pc' = "exec"
                /\ commands' = Routing[question].commands
                /\ stage' = 1
                /\ workdir' = "exists"
                /\ UNCHANGED <<answer, exc, calls>>
           ELSE /\ Raise("FileNotFoundError")
                /\ workdir' = TemporaryDirectoryExit
                /\ UNCHANGED <<commands, stage>>

\* line 157 with len(date_range) >= 2
ValidDateRange_AtLeastTwo(date_range) ==
  Truthy(date_range) /\ Len(date_range.v) >= 2

\* line 157: date_range and len(date_range) == 2
ValidDateRange(date_range) == Truthy(date_range) /\ Len(date_range.v) = 2

\* self.date_handler and self.json_handler: what count_wednesdays and
\* sort_json return for the arguments of the bounded input set
date_handler ==
  [dates \in {<<d.v[1], d.v[2]>> :
                d \in {x \in DateRangeValues : x.t = "arr" /\ Len(x.v) >= 2}} |->
     count_wednesdays(dates[1], dates[2])]

json_handler ==
  [json_str \in {x.v : x \in {y \in JsonDataValues : y.t = "str"}} |->
     Str(sort_json(json_str))]

\* lines 142-170
\* lines 417-419 left out: the prompt without the note on the error
create_final_prompt_NoErrorNote(text, an) ==
  LET section(key) ==
        IF HasTruthy(an, key)
          THEN <<[part |-> key, value |-> an.v[key]]>> ELSE <<>>
  IN  <<[part |-> "question", value |-> JStr(text)]>>
        \o section("file_content")
        \o (IF "question_type" \in DOMAIN an.v
              THEN <<[part |-> "question_type", value |-> an.v["question_type"]]>>
              ELSE <<>>)
        \o section("direct_answer")
        \o <<[part |-> "instructions", value |-> JNull]>>

\* QuestionProcessor._create_final_prompt: the sections of the prompt in
\* order, each with the value it embeds: the question, the file content and
\* the error when present and truthy, the question type when present, the
\* direct answer when present and truthy, and the closing instructions
create_final_prompt(text, an) ==
  LET section(key) ==
        IF HasTruthy(an, key)
          THEN <<[part |-> key, value |-> an.v[key]]>> ELSE <<>>
  IN  <<[part |-> "question", value |-> JStr(text)]>>
        \o section("file_content")
        \o section("error")
        \o (IF "question_type" \in DOMAIN an.v
              THEN <<[part |-> "question_type", value |-> an.v["question_type"]]>>
              ELSE <<>>)
        \o section("direct_answer")
        \o <<[part |-> "instructions", value |-> JNull]>>

Dispatch ==
  /\ pc = "dispatch"
  /\ LET actions == Get(analysis, "actions", JArr(<<>>))
         calculation_type == Get(analysis, "calculation_type", JNull)
         date_range == Get(analysis, "date_range", JNull)
         json_str == Get(analysis, "json_data", JNull)
     IN
     IF analysis.t # "obj"
       THEN Raise("AttributeError") /\ UNCHANGED <<commands, stage, workdir>>
     ELSE IF actions.t # "arr"
       THEN Raise("TypeError") /\ UNCHANGED <<commands, stage, workdir>>
     ELSE IF InList("execute_command", actions)
       THEN DispatchCommand
     ELSE IF /\ InList("process_json", actions)
             /\ temp_file_path # NoFile
             /\ Routing[question].jsonhash
       THEN /\ \E ret \in MultiCursorResults :
                 Return("process_multi_cursor_json", ret)
            /\ UNCHANGED <<commands, stage, workdir>>
     ELSE IF /\ InList("specialized_calculation", actions)
             /\ calculation_type = JStr("count_wednesdays")
             /\ ValidDateRange(date_range)
       THEN /\ Return("count_wednesdays",
                      date_handler[<<date_range.v[1], date_range.v[2]>>])
            /\ UNCHANGED <<commands, stage, workdir>>
     ELSE IF /\ InList("specialized_calculation", actions)
             /\ calculation_type = JStr("json_sorting")
             /\ Truthy(json_str)
       THEN /\ Return("sort_json", json_handler[json_str.v])
            /\ UNCHANGED <<commands, stage, workdir>>
     ELSE IF HasTruthy(analysis, "direct_answer")
       THEN /\ answer' = analysis.v["direct_answer"].v
            /\ pc' = "returned"
            /\ UNCHANGED <<exc, calls, commands, stage, workdir>>
     ELSE IF ~ai_proxy_token
       THEN /\ Return("_get_final_answer_with_ai",
                      "AI Proxy token not configured. Please set the AIPROXY_TOKEN environment variable.")
            /\ UNCHANGED <<commands, stage, workdir>>
     ELSE /\ pc' = "finalize"
          /\ calls' = Append(calls, Call("post:finalize", ""))
          /\ UNCHANGED <<answer, exc, commands, stage, workdir>>
  /\ prompt' = IF pc' = "finalize"
                 THEN create_final_prompt(question, analysis) ELSE prompt
  /\ UNCHANGED <<upload, aux>>
  /\ UNCHANGED <<ai_proxy_token, question, temp_file_path, ai_reply, analysis,
                 result, started, http>>

(***************************************************************************)
(* The pipeline and the finalizer.                                         *)
(***************************************************************************)
\* a pipeline that goes on after a stage failed
StageFailed_Ignored(process) == FALSE

\* lines 145 and 159: process.returncode != 0
StageFailed(process) == process.returncode # 0

\* the allow-list checks of every command moved in front of the loop: the
\* first rejection of the whole pipeline is returned before anything runs
IterationCheck_UpFront(cmds, n, file_name) ==
  LET refused == {k \in n..Len(cmds) :
                    StageCheck(cmds[k], file_name).kind
                      \in {"command_not_allowed", "package_not_allowed"}}
  IN  IF refused # {}
        THEN StageCheck(cmds[SetMin(refused)], file_name)
        ELSE StageCheck(cmds[n], file_name)

\* lines 103-131 inside `for cmd_str in commands`: the checks made in
\* iteration n concern the command of that iteration only
IterationCheck(cmds, n, file_name) == StageCheck(cmds[n], file_name)

\* line 134 as `if not result`: an empty output is taken for no output
StageInput_Falsy(previous) ==
  IF previous.data = <<>> THEN NoResult ELSE previous

\* lines 134-152: the input of the next process: none while result is None,
\* the captured output of the previous stage after that
StageInput(previous) == IF ~previous.piped THEN NoResult ELSE previous

\* One iteration of the loop of CommandHandler._execute_commands (lines
\* 103-160), and line 162 after the last one.  The return of
\* _execute_commands is the return of process_command_question (line 56),
\* which leaves the with block of line 48.
ExecStage ==
  /\ pc = "exec"
  /\ LET file_name == Basename(temp_file_path)
         check == IterationCheck(commands, stage, file_name)
     IN  IF check.kind # "run"
           THEN /\ Return("process_command_question", check.text)
                /\ UNCHANGED <<stage, result, started>>
           ELSE \E run \in RunResults :
                  IF run.kind = "oserror"
                    THEN /\ Return("process_command_question",
                                   "Error executing commands: [Errno 2]")
                         /\ UNCHANGED <<stage, result, started>>
                    ELSE /\ started' =
                              Append(started, [stage |-> stage,
                                               final_cmd |-> check.final_cmd,
                                               stdin |-> StageInput(result),
                                               stdout |-> run.stdout,
                                               returncode |-> run.returncode,
                                               stderr |-> run.stderr,
                                               cwd |-> WorkingDir])
                         /\ result' = [piped |-> TRUE, data |-> run.stdout]
                         /\ IF StageFailed(run)
                              THEN /\ Return("process_command_question",
                                             "Error executing "
                                               \o Str(check.final_cmd[1])
                                               \o ": " \o run.stderr)
                                   /\ UNCHANGED stage
                            ELSE IF stage = Len(commands)
                              THEN /\ Return("process_command_question",
                                             Str(Strip(run.stdout)))
                                   /\ UNCHANGED stage
                            ELSE /\ stage' = stage + 1
                                 /\ UNCHANGED <<pc, answer, exc, calls>>
  /\ workdir' = IF pc' = "exec" THEN workdir ELSE TemporaryDirectoryExit
  /\ UNCHANGED <<prompt, upload, aux>>
  /\ UNCHANGED <<ai_proxy_token, question, temp_file_path, ai_reply, analysis,
                 commands, http>>

\* QuestionProcessor._get_final_answer_with_ai from the reply on (lines
\* 331-345): the string returned
get_final_answer_with_ai(reply) ==
  CASE reply.kind = "status_error" ->
         "Error from AI service: Status 500, Internal Server Error"
    [] reply.kind \in {"network_error", "timeout"} ->
         "Error connecting to AI service: " \o reply.kind
    [] reply.kind = "no_choices" -> "Failed to extract answer from AI response"
    [] reply.kind = "ok" ->
         \* lines 337-338: the reply stripped, then cleaned
         Str(extract_final_answer(Strip(reply.content)))

\* line 170, once the finalize request has come back
Finalize ==
  /\ pc = "finalize"
  /\ \E reply \in FinalizerReplies :
       Return("_get_final_answer_with_ai", get_final_answer_with_ai(reply))
  /\ UNCHANGED <<workdir, prompt, upload, aux>>
  /\ UNCHANGED <<ai_proxy_token, question, temp_file_path, ai_reply, analysis,
                 commands, stage, result, started, http>>

\* answer_question from the return of process_question on (main.py 72-77)
Respond ==
  /\ pc \in {"returned", "raised"}
  /\ http' =
       IF pc = "returned"
         THEN [status |-> 200, body |-> answer]
         ELSE [status |-> 500, body |-> "Error processing question: " \o exc]
  /\ pc' = "responded"
  /\ UNCHANGED <<workdir, prompt, upload, aux>>
  /\ UNCHANGED <<ai_proxy_token, question, temp_file_path, ai_reply, analysis,
                 answer, exc, calls, commands, stage, result, started>>

Next ==
  \/ AnswerQuestion
  \/ ShortCircuitPrettier
  \/ ShortCircuitMultiCursor
  \/ Classify
  \/ PreprocessFile
  \/ Dispatch
  \/ ExecStage
  \/ Finalize
  \/ Respond

Spec == Init /\ [][Next]_vars

(***************************************************************************)
(* Concurrent requests and the files of the uploads.  answer_question is   *)
(* a coroutine: a request runs without interruption between two awaits, so *)
(* saving the upload is one step, process_question (which awaits the       *)
(* generative service before it touches the file) another, and the         *)
(* background task that deletes the upload a third.                        *)
(***************************************************************************)
\* the variables of the single request of Spec
routervars ==
  <<ai_proxy_token, question, temp_file_path, pc, ai_reply, analysis, answer,
    exc, calls, commands, stage, result, started, http, workdir, prompt,
    temp_dirs, csv_file, file_chars>>

Requests == 1..MaxRequests

\* the file names the concurrent requests upload
UploadNames == {N_README_md, N_data_csv}

\* a request before answer_question runs: read is the request whose bytes
\* process_question read (0 when the file was gone, -1 when it read none),
\* overwrote and deleted the request whose file was overwritten or deleted
IdleRequest ==
  [pc |-> "idle", temp_file_path |-> NoFile, read |-> -1, overwrote |-> 0,
   deleted |-> 0, status |-> 0, task |-> "none"]

\* the request whose upload is stored at path, 0 when there is no such file
Owner(path) ==
  IF \E f \in fs : f.path = path
    THEN (CHOOSE f \in fs : f.path = path).owner
    ELSE 0

\* open(path, "wb") and the copy of the upload by request r
WriteFile(path, r) == {f \in fs : f.path # path} \cup {[path |-> path, owner |-> r]}

\* os.remove(path)
RemoveFile(path) == {f \in fs : f.path # path}

FilesInit ==
  /\ RouterInit
  /\ call = NoCall
  /\ fs = {}
  /\ reqs = [r \in Requests |-> IdleRequest]

\* main.py 64-69: request r arrives, with or without a file, and saves it
SaveUpload(r) ==
  /\ reqs[r].pc = "idle"
  /\ \/ /\ reqs' = [reqs EXCEPT ![r].pc = "processing"]
        /\ UNCHANGED fs
     \/ \E filename \in UploadNames :
          LET path == save_upload_file(filename)
          IN  /\ fs' = WriteFile(path, r)
              /\ reqs' = [reqs EXCEPT ![r].pc = "processing",
                                      ![r].temp_file_path = path,
                                      ![r].overwrote = Owner(path)]
  /\ UNCHANGED routervars
  /\ UNCHANGED call

\* main.py 72: process_question of request r, after the reply of the
\* classifier: it opens the upload or not (question_processor.py 135-136,
\* command_handler.py 52), and returns or raises
ProcessQuestion(r) ==
  /\ reqs[r].pc = "processing"
  /\ \E opens \in BOOLEAN, raised \in BOOLEAN :
       reqs' = [reqs EXCEPT
                  ![r].pc = "done",
                  ![r].read = IF opens /\ reqs[r].temp_file_path # NoFile
                                THEN Owner(reqs[r].temp_file_path) ELSE -1,
                  ![r].status = IF raised THEN 500 ELSE 200]
  /\ UNCHANGED fs
  /\ UNCHANGED routervars
  /\ UNCHANGED call

\* main.py 74-82: the response of request r.  The finally block adds the
\* cleanup task when a file was saved.  The tasks are run after the
\* response the endpoint returned; the response to an HTTPException is
\* built by the exception handler and carries no tasks.
SendResponse(r) ==
  /\ reqs[r].pc = "done"
  /\ reqs' = [reqs EXCEPT
                ![r].pc = "responded",
                ![r].task = IF reqs[r].temp_file_path = NoFile THEN "none"
                            ELSE IF reqs[r].status = 200 THEN "scheduled"
                            ELSE "dropped"]
  /\ UNCHANGED fs
  /\ UNCHANGED routervars
  /\ UNCHANGED call

\* cleanup_temp_file (file_utils.py 34-45) run as the background task of
\* request r: os.remove removes the file or raises, which is printed
CleanupTempFile(r) ==
  /\ reqs[r].pc = "responded"
  /\ reqs[r].task = "scheduled"
  /\ LET path == reqs[r].temp_file_path
     IN  IF Owner(path) = 0
           THEN /\ reqs' = [reqs EXCEPT ![r].task = "ran"]
                /\ UNCHANGED fs
           ELSE \/ /\ fs' = RemoveFile(path)
                   /\ reqs' = [reqs EXCEPT ![r].task = "ran",
                                           ![r].deleted = Owner(path)]
                \/ /\ reqs' = [reqs EXCEPT ![r].task = "ran"]
                   /\ UNCHANGED fs
  /\ UNCHANGED routervars
  /\ UNCHANGED call

FilesNext ==
  \/ \E r \in Requests : SaveUpload(r)
  \/ \E r \in Requests : ProcessQuestion(r)
  \/ \E r \in Requests : SendResponse(r)
  \/ \E r \in Requests : CleanupTempFile(r)

\* every request that can take a step eventually takes one: the event loop
\* runs every task that is ready
FilesSpec ==
  /\ FilesInit
  /\ [][FilesNext]_vars
  /\ \A r \in Requests :
       /\ WF_vars(SaveUpload(r))
       /\ WF_vars(ProcessQuestion(r))
       /\ WF_vars(SendResponse(r))
       /\ WF_vars(CleanupTempFile(r))

(***************************************************************************)
(* DateHandler.count_wednesdays called on its own: one call per behaviour, *)
(* on two date strings of the bounded input set.                           *)
(***************************************************************************)
Date(y, m, d) == [y |-> y, m |-> m, d |-> d]

\* the dates of the calls: days around two Wednesdays and a leap day, the
\* range of the end-to-end test, and the last days of datetime
NearDates ==
  {Date(2024, 2, 28), Date(2024, 3, 5), Date(2024, 12, 25), Date(2025, 1, 1),
   Date(2025, 1, 7)}

TestDates == {Date(1985, 9, 10), Date(2011, 10, 2)}

LastDates == {Date(9999, 12, 29), Date(9999, 12, 31)}

\* a date in each supported format
Renderings(date) ==
  {FormatIso(date.y, date.m, date.d), FormatUs(date.y, date.m, date.d)}

DateTexts(dates) == UNION {Renderings(date) : date \in dates}

DatePairs ==
  (DateTexts(NearDates) \X DateTexts(NearDates))
    \cup (DateTexts(TestDates) \X DateTexts(TestDates))
    \cup (DateTexts(LastDates) \X DateTexts(LastDates))

HandlerCall(fn, args) == [fn |-> fn, args |-> args, ret |-> <<>>]

DatesInit ==
  /\ RouterInit
  /\ fs = {}
  /\ reqs = <<>>
  /\ call \in {HandlerCall("count_wednesdays", pair) : pair \in DatePairs}

CountWednesdays ==
  /\ call.fn = "count_wednesdays"
  /\ call.ret = <<>>
  /\ call' = [call EXCEPT
                !.ret = <<count_wednesdays(call.args[1], call.args[2])>>]
  /\ UNCHANGED <<routervars, fs, reqs>>

DatesNext == CountWednesdays

DatesSpec == DatesInit /\ [][DatesNext]_vars

(***************************************************************************)
(* JSONHandler.sort_json and JSONHandler.extract_json_key called on their  *)
(* own: one call per behaviour, on texts of the bounded input set.         *)
(***************************************************************************)
\* the objects of the arrays to sort: with and without the two sort fields,
\* with equal keys, and with an age that is a string or null
SortObjects ==
  LET al == PyStr(<<"A", "l">>)
      bob == PyStr(<<"B", "o", "b">>)
      id(n) == Item(<<"i", "d">>, PyInt(n))
      name(x) == Item(Texts.name, x)
      age(x) == Item(Texts.age, x)
  IN  {PyDict(<<>>), PyDict(<<id(1)>>), PyDict(<<name(bob)>>),
       PyDict(<<age(PyInt(30))>>), PyDict(<<age(PyInt(55)), name(bob)>>),
       PyDict(<<name(bob), age(PyInt(30))>>),
       PyDict(<<name(al), age(PyInt(30)), id(1)>>),
       PyDict(<<name(al), age(PyInt(30)), id(2)>>)}
        \cup {PyDict(<<name(al), age(a)>>) :
                a \in {PyInt(30), PyInt(55), PyStr(<<"3", "0">>), PyNone}}

\* the sequences of at most n elements of S
RECURSIVE SeqsUpTo(_, _)
SeqsUpTo(S, n) ==
  IF n = 0 THEN {<<>>}
  ELSE SeqsUpTo(S, n - 1)
         \cup {Append(q, x) : q \in {r \in SeqsUpTo(S, n - 1) : Len(r) = n - 1},
                               x \in S}

\* the texts to sort: each array written compactly and with the default
\* separators, and two texts that are no array
SortTexts ==
  UNION {{dumps(PyList(items), <<",">>, <<":">>),
          dumps(PyList(items), <<",", " ">>, <<":", " ">>)} :
           items \in SeqsUpTo(SortObjects, MaxItems)}
    \cup {dumps(PyDict(<<>>), <<",">>, <<":">>), Texts.expecting_value}

\* the documents to extract from
Documents ==
  LET key(k, x) == Item(k, x)
      data == <<"d", "a", "t", "a">>
      results == <<"r", "e", "s", "u", "l", "t", "s">>
      x == PyStr(<<"x">>)
  IN  {PyDict(<<key(data, PyDict(<<key(results,
                                         PyList(<<PyDict(<<key(Texts.name,
                                                                x)>>)>>)),
                                    key(Texts.null, PyNone)>>))>>),
       PyDict(<<key(data, PyDict(<<>>))>>),
       PyList(<<PyInt(10), PyDict(<<key(Texts.name, x)>>)>>)}

\* the segments of the key paths: names, which a dot separates from what
\* precedes them, and indexes
PathParts ==
  {[name |-> n, index |-> <<>>] :
     n \in {<<"d", "a", "t", "a">>, <<"r", "e", "s", "u", "l", "t", "s">>,
            Texts.name, Texts.null, <<"m", "i", "s", "s", "i", "n", "g">>}}
    \cup {[name |-> <<>>, index |-> i] : i \in {<<"0">>, <<"1">>, <<"2">>}}

\* the key path that names the parts, as the docstring of line 65 writes it
RECURSIVE PathText(_)
PathText(parts) ==
  IF parts = <<>> THEN <<>>
  ELSE LET last == parts[Len(parts)]
           before == PathText(SubSeq(parts, 1, Len(parts) - 1))
       IN  IF last.name = <<>> THEN before \o <<"[">> \o last.index \o <<"]">>
           ELSE IF before = <<>> THEN last.name
           ELSE before \o <<".">> \o last.name

JsonCalls ==
  {HandlerCall("sort_json", <<text>>) : text \in SortTexts}
    \cup {HandlerCall("extract_json_key",
                     <<dumps(data, <<",", " ">>, <<":", " ">>),
                       PathText(parts)>>) :
            data \in Documents, parts \in SeqsUpTo(PathParts, MaxParts)}

JsonInit ==
  /\ RouterInit
  /\ fs = {}
  /\ reqs = <<>>
  /\ call \in JsonCalls

SortJson ==
  /\ call.fn = "sort_json"
  /\ call.ret = <<>>
  /\ call' = [call EXCEPT !.ret = <<sort_json(call.args[1])>>]
  /\ UNCHANGED <<routervars, fs, reqs>>

ExtractJsonKey ==
  /\ call.fn = "extract_json_key"
  /\ call.ret = <<>>
  /\ call' = [call EXCEPT
                !.ret = <<extract_json_key(call.args[1], call.args[2])>>]
  /\ UNCHANGED <<routervars, fs, reqs>>

JsonNext == SortJson \/ ExtractJsonKey

JsonSpec == JsonInit /\ [][JsonNext]_vars

(***************************************************************************)
(* JSONProcessorHandler: the conversion of key=value lines to a JSON       *)
(* object and the hash of a JSON text. ConverterSpec applies them to files *)
(* of up to MaxPairs lines and to JSON texts.                              *)
(***************************************************************************)
MaxPairs == 2

K_true == <<"t", "r", "u", "e">>

K_false == <<"f", "a", "l", "s", "e">>

\* lines 62-66 before lines 59-60: the float is tried before the digits
\* lines 68-80: the value that is no number
NotANumber(value) ==
  IF Lower(value) = K_true THEN PyBool(TRUE)
  ELSE IF Lower(value) = K_false THEN PyBool(FALSE)
  ELSE IF "," \in Range(value)
    THEN Once(SplitOn(value, ","), LAMBDA items :
           PyList([i \in DOMAIN items |-> PyStr(Strip(items[i]))]))
  ELSE PyStr(value)

\* lines 62-66 before lines 59-60: the float is tried before the digits
convert_value_type_FloatFirst(value) ==
  Once(float(value), LAMBDA float_val :
    IF float_val.ok THEN float_val.value ELSE NotANumber(value))

\* JSONProcessorHandler._convert_value_type
convert_value_type(value) ==
  IF IsDigits(value) THEN PyInt(ToInt(value))
  ELSE Once(float(value), LAMBDA float_val :
         IF float_val.ok THEN float_val.value
         ELSE NotANumber(value))

\* the text file of which the conversion is asked: it can be opened and read
\* or not
TextFile(content) == [readable |-> TRUE, content |-> content]

NoTextFile == [readable |-> FALSE, content |-> <<>>]

\* lines 31-37: the object after the lines from index i on
RECURSIVE KeyValuePairs(_, _, _)
KeyValuePairs(lines, i, json_object) ==
  IF i > Len(lines) THEN json_object
  ELSE IF "=" \notin Range(lines[i])
    THEN KeyValuePairs(lines, i + 1, json_object)
  ELSE LET at == SetMin({k \in DOMAIN lines[i] : lines[i][k] = "="})
           key == SubSeq(lines[i], 1, at - 1)
           value == SubSeq(lines[i], at + 1, Len(lines[i]))
       IN  KeyValuePairs(lines, i + 1,
                         SetItem(json_object, Strip(key),
                                 convert_value_type(value)))

\* lines 43-44: the string returned when the file cannot be read
K_conversion_error ==
  <<"E", "r", "r", "o", "r", " ", "c", "o", "n", "v", "e", "r", "t", "i", "n",
      "g", " ", "k", "e", "y", "-", "v", "a", "l", "u", "e", " ", "p", "a",
      "i", "r", "s", " ", "t", "o", " ", "J", "S", "O", "N", ":", " ", "[",
      "E", "r", "r", "n", "o", " ", "2", "]", " ", "N", "o", " ", "s", "u",
      "c", "h", " ", "f", "i", "l", "e", " ", "o", "r", " ", "d", "i", "r",
      "e", "c", "t", "o", "r", "y">>

\* JSONProcessorHandler.convert_keyvalue_to_json
convert_keyvalue_to_json(file) ==
  IF ~file.readable
    THEN K_conversion_error
    ELSE dumps(PyDict(KeyValuePairs(SplitOn(Strip(file.content), "\n"), 1,
                                    <<>>)),
               <<",">>, <<":">>)

\* the items of a dict in the order of their keys, as sort_keys=True has
\* them serialized
RECURSIVE SortedItems(_)
SortedItems(items) ==
  IF items = <<>> THEN <<>>
  ELSE LET least == CHOOSE i \in DOMAIN items :
                      \A j \in DOMAIN items :
                        j = i \/ StrLt(items[i].key, items[j].key)
       IN  <<items[least]>>
             \o SortedItems([k \in 1..(Len(items) - 1) |->
                               IF k < least THEN items[k] ELSE items[k + 1]])

\* the value with the items of every dict in it in the order of their keys
RECURSIVE SortKeys(_)
SortKeys(x) ==
  IF x.t = "list" THEN PyList([i \in DOMAIN x.v |-> SortKeys(x.v[i])])
  ELSE IF x.t = "dict"
    THEN LET items == SortedItems(x.v)
         IN  PyDict([i \in DOMAIN items |->
                       Item(items[i].key, SortKeys(items[i].value))])
  ELSE x

\* hashlib.sha256(data).hexdigest(): the digest is kept as the data it is
\* the digest of, so that two digests are equal exactly when the data are
sha256(data) == [kind |-> "sha256", text |-> data]

\* a string that is no digest computed here
Message(text) == [kind |-> "str", text |-> text]

\* what the hash service can answer to a request
ServiceReplies ==
  {[kind |-> "ok", hash |-> <<"0", "f", "3", "a">>],
   [kind |-> "no_hash", hash |-> <<>>],
   [kind |-> "status_error", hash |-> <<>>],
   [kind |-> "network_error", hash |-> <<>>]}

\* lines 96-98 as `if False:`: the local calculation is skipped and the
\* service is asked for every input
LocalHash_Skipped(json_string) == [ok |-> FALSE, value |-> Message(<<>>)]

\* lines 92-99: the local calculation; ok is FALSE when it raised
LocalHash(json_string) ==
  Once(loads(json_string), LAMBDA json_obj :
    IF ~json_obj.ok THEN [ok |-> FALSE, value |-> Message(<<>>)]
    ELSE [ok |-> TRUE,
          value |-> sha256(dumps(SortKeys(json_obj.value),
                                 <<",">>, <<":">>))])

\* JSONProcessorHandler.get_json_hash: what it returns and the data it
\* posted to the hash service, when the service answers with reply
get_json_hash(json_string, reply) ==
  Once(LocalHash(json_string), LAMBDA local :
    IF local.ok THEN [value |-> local.value, posted |-> <<>>]
    ELSE [posted |-> <<json_string>>,
          value |->
            CASE reply.kind = "ok" -> Message(reply.hash)
              [] reply.kind = "no_hash" ->
                   Message(<<"E", "r", "r", "o", "r", ":", " ", "N", "o", " ",
                       "h", "a", "s", "h", " ", "i", "n", " ", "r", "e", "s",
                       "p", "o", "n", "s", "e">>)
              [] reply.kind = "status_error" ->
                   Message(<<"E", "r", "r", "o", "r", " ", "f", "r", "o", "m",
                       " ", "h", "a", "s", "h", " ", "s", "e", "r", "v", "i",
                       "c", "e", ":", " ", "5", "0", "0">>)
              [] reply.kind = "network_error" ->
                   Message(<<"E", "r", "r", "o", "r", " ", "c", "a", "l", "c",
                       "u", "l", "a", "t", "i", "n", "g", " ", "J", "S", "O",
                       "N", " ", "h", "a", "s", "h", ":", " ", "A", "l", "l",
                       " ", "c", "o", "n", "n", "e", "c", "t", "i", "o", "n",
                       " ", "a", "t", "t", "e", "m", "p", "t", "s", " ", "f",
                       "a", "i", "l", "e", "d">>)])

\* JSONProcessorHandler.process_multi_cursor_json
process_multi_cursor_json(file, reply) ==
  get_json_hash(convert_keyvalue_to_json(file), reply)

\* the lines of the text files: pairs whose values are of every kind the
\* conversion tells apart, a pair with a second "=", a pair with spaces
\* around the key, and lines without "="
KeyValueLines ==
  {<<"f", "o", "o", "=", "1">>, <<"f", "o", "o", "=", "0", "0", "7">>, <<"f",
      "o", "o", "=", "1", ".", "5", "0">>, <<"f", "o", "o", "=", "-", "5">>,
      <<"f", "o", "o", "=", " ", "1">>,
   <<"f", "o", "o", "=", "1", "e", "3">>, <<"f", "o", "o", "=", "i", "n",
       "f">>, <<"f", "o", "o", "=", "N", "a", "N">>, <<"f", "o", "o", "=", "t",
       "r", "u", "e">>, <<"f", "o", "o", "=", "T", "R", "U", "E">>,
   <<"f", "o", "o", "=", "F", "a", "l", "s", "e">>, <<"f", "o", "o", "=", " ",
       "t", "r", "u", "e">>, <<"f", "o", "o", "=", "x", ",", "y">>, <<"f", "o",
       "o", "=", "a", ",", " ", "b", " ", ",", "c">>,
   <<"f", "o", "o", "=", "1", ",", "2">>, <<"f", "o", "o", "=", "x">>, <<"f",
       "o", "o", "=">>, <<"b", "a", "r", "=", "x", "=", "y">>, <<" ", "b", "a",
       "r", " ", "=", " ", "2">>,
   <<"b", "a", "r", "=", "t", "r", "u", "e">>, <<"n", "o", " ", "p", "a", "i",
       "r", " ", "h", "e", "r", "e">>, <<>>}

\* the file of the example: foo=1, bar=true, baz=x,y
ExampleFile == TextFile(<<"f", "o", "o", "=", "1", "\n", "b", "a", "r", "=",
    "t", "r", "u", "e", "\n", "b", "a", "z", "=", "x", ",", "y">>)

\* the text files: up to MaxPairs lines, and the file of the example
TextFiles ==
  {TextFile(JoinLines(lines)) :
     lines \in UNION {[1..n -> KeyValueLines] : n \in 1..MaxPairs}}
    \cup {ExampleFile}

\* JSON texts in groups: the texts of a group differ in the order of the
\* keys and in the whitespace between the tokens only, and canonical is the
\* text of the group with the keys sorted and no whitespace
DocumentGroups ==
  {[canonical |-> <<"{", "\"", "a", "\"", ":", "2", ",", "\"", "b", "\"", ":",
      "1", "}">>,
    texts |-> {<<"{", "\"", "a", "\"", ":", "2", ",", "\"", "b", "\"", ":",
        "1", "}">>, <<"{", "\"", "b", "\"", ":", "1", ",", "\"", "a", "\"",
        ":", "2", "}">>,
               <<"{", " ", "\"", "b", "\"", " ", ":", " ", "1", " ", ",", "\n",
                   " ", "\"", "a", "\"", " ", ":", " ", "2", " ", "}">>, <<" ",
                   "{", "\"", "b", "\"", ":", "1", ",", " ", "\"", "a", "\"",
                   ":", "2", "}", " ">>}],
   [canonical |-> <<"{", "\"", "a", "\"", ":", "n", "u", "l", "l", ",", "\"",
       "b", "\"", ":", "{", "\"", "c", "\"", ":", "[", "3", ",", "{", "\"",
       "y", "\"", ":", "2", ",", "\"", "z", "\"", ":", "t", "r", "u", "e", "}",
       "]", ",", "\"", "d", "\"", ":", "1", ".", "5", "}", "}">>,
    texts |-> {<<"{", "\"", "b", "\"", ":", "{", "\"", "d", "\"", ":", "1",
        ".", "5", ",", "\"", "c", "\"", ":", "[", "3", ",", "{", "\"", "z",
        "\"", ":", "t", "r", "u", "e", ",", "\"", "y", "\"", ":", "2", "}",
        "]", "}", ",", "\"", "a", "\"", ":", "n", "u", "l", "l", "}">>,
               <<"{", "\"", "a", "\"", ":", " ", "n", "u", "l", "l", ",", " ",
                   "\"", "b", "\"", ":", " ", "{", "\"", "c", "\"", ":", " ",
                   "[", "3", ",", " ", "{", "\"", "y", "\"", ":", " ", "2",
                   ",", " ", "\"", "z", "\"", ":", " ", "t", "r", "u", "e",
                   "}", "]", ",", " ", "\"", "d", "\"", ":", " ", "1", ".",
                   "5", "}", "}">>,
               <<"{", "\"", "b", "\"", ":", "{", "\"", "c", "\"", ":", "[",
                   " ", "3", " ", ",", "{", "\"", "y", "\"", ":", "2", ",",
                   "\"", "z", "\"", ":", "t", "r", "u", "e", "}", "]", ",",
                   "\"", "d", "\"", ":", "1", ".", "5", "}", ",", "\n", "\"",
                   "a", "\"", ":", "n", "u", "l", "l", "}">>}],
   [canonical |-> <<"[", "\"", "x", " ", "y", "\"", ",", "{", "\"", "B", "\"",
       ":", "3", ",", "\"", "a", "\"", ":", "2", ",", "\"", "a", "b", "\"",
       ":", "1", "}", "]">>,
    texts |-> {<<"[", "\"", "x", " ", "y", "\"", ",", "{", "\"", "a", "b",
        "\"", ":", "1", ",", "\"", "a", "\"", ":", "2", ",", "\"", "B", "\"",
        ":", "3", "}", "]">>,
               <<"[", " ", "\"", "x", " ", "y", "\"", " ", ",", " ", "{", " ",
                   "\"", "a", "\"", " ", ":", " ", "2", " ", ",", " ", "\"",
                   "B", "\"", " ", ":", " ", "3", " ", ",", " ", "\"", "a",
                   "b", "\"", " ", ":", " ", "1", " ", "}", " ", "]">>}]}

\* texts that json.loads rejects; the first is the error string of the
\* conversion
InvalidDocuments ==
  {K_conversion_error, <<>>, <<"{", "\"", "a", "\"", ":", "1">>, <<"{", "\"",
      "a", "\"", ":", "1", "}", "x">>, <<"{", "a", ":", "1", "}">>,
   <<"f", "o", "o", "=", "1">>}

\* the calls of ConverterSpec: the conversion of each text file and of a
\* file that cannot be read
ConversionCalls ==
  {HandlerCall("convert_keyvalue_to_json", <<file>>) :
     file \in TextFiles \cup {NoTextFile}}

\* the hash of each JSON text, for each answer of the service
HashCalls ==
  {HandlerCall("get_json_hash", <<json_string, reply>>) :
     json_string \in InvalidDocuments
                       \cup UNION {g.texts : g \in DocumentGroups},
     reply \in ServiceReplies}

\* the conversion followed by the hash, for the files of one line, for each
\* answer of the service
MultiCursorCalls ==
  {HandlerCall("process_multi_cursor_json", <<file, reply>>) :
     file \in {TextFile(line) : line \in KeyValueLines}
                \cup {ExampleFile, NoTextFile},
     reply \in ServiceReplies}

ConverterInit ==
  /\ RouterInit
  /\ fs = {}
  /\ reqs = <<>>
  /\ \/ call \in ConversionCalls
     \/ call \in HashCalls
     \/ call \in MultiCursorCalls

ConvertKeyvalueToJson ==
  /\ call.fn = "convert_keyvalue_to_json"
  /\ call.ret = <<>>
  /\ call' = [call EXCEPT !.ret = <<convert_keyvalue_to_json(call.args[1])>>]
  /\ UNCHANGED <<routervars, fs, reqs>>

GetJsonHash ==
  /\ call.fn = "get_json_hash"
  /\ call.ret = <<>>
  /\ call' = [call EXCEPT
                !.ret = <<get_json_hash(call.args[1], call.args[2])>>]
  /\ UNCHANGED <<routervars, fs, reqs>>

ProcessMultiCursorJson ==
  /\ call.fn = "process_multi_cursor_json"
  /\ call.ret = <<>>
  /\ call' = [call EXCEPT
                !.ret = <<process_multi_cursor_json(call.args[1],
                                                    call.args[2])>>]
  /\ UNCHANGED <<routervars, fs, reqs>>

ConverterNext == ConvertKeyvalueToJson \/ GetJsonHash \/ ProcessMultiCursorJson

ConverterSpec == ConverterInit /\ [][ConverterNext]_vars

(***************************************************************************)
(* CleanupSpec: the cleanup applied to replies of up to MaxLines lines.    *)
(***************************************************************************)
\* the lines the replies are made of: lines with a label (one of them
\* indented), a fence, a line of code, two lines with an introductory phrase
\* and a blank line
ReplyLines ==
  {L_answer, L_result, L_the_answer, L_indented, L_fence, L_code, L_heres,
   L_first, L_blank}

\* the replies of the generative service: up to MaxLines lines
Replies ==
  {JoinLines(lines) : lines \in UNION {[1..n -> ReplyLines] : n \in 1..MaxLines}}

CleanupInit ==
  /\ RouterInit
  /\ fs = {}
  /\ reqs = <<>>
  /\ call \in {HandlerCall("_extract_final_answer", <<response>>) :
                 response \in Replies}

ExtractFinalAnswer ==
  /\ call.fn = "_extract_final_answer"
  /\ call.ret = <<>>
  /\ call' = [call EXCEPT !.ret = <<extract_final_answer(call.args[1])>>]
  /\ UNCHANGED <<routervars, fs, reqs>>

CleanupNext == ExtractFinalAnswer

CleanupSpec == CleanupInit /\ [][CleanupNext]_vars

(***************************************************************************)
(* Properties.                                                             *)
(***************************************************************************)
FilePresent == temp_file_path # NoFile

\* process_question has returned or raised
Finished == pc \in {"returned", "raised", "responded"}

\* what the text of each question mentions, case-insensitively
Mentions ==
  [q \in QuestionIds |->
     [kw \in {"npx", "prettier", "sha256sum", "multi-cursor", "json",
              "jsonhash", "hash"} |->
        Contains(Lower(QuestionText(q)),
                 CASE kw = "npx" -> K_npx
                   [] kw = "prettier" -> K_prettier
                   [] kw = "sha256sum" -> K_sha256sum
                   [] kw = "multi-cursor" -> K_multi_cursor
                   [] kw = "json" -> K_json
                   [] kw = "jsonhash" -> K_jsonhash
                   [] kw = "hash" -> K_hash)]]

\* the literal short-circuit patterns
PrettierPattern(q) ==
  Mentions[q]["npx"] /\ Mentions[q]["prettier"] /\ Mentions[q]["sha256sum"]

MultiCursorPattern(q) ==
  /\ Mentions[q]["multi-cursor"]
  /\ Mentions[q]["json"]
  /\ Mentions[q]["jsonhash"] \/ Mentions[q]["hash"]

\* C1: when a file is present and the question matches a literal
\* short-circuit pattern, case-insensitively, the classifier is never called,
\* the request never gets past the short-circuit, and once process_question
\* has returned the only call made is the short-circuit handler, whose result
\* is the answer.
C1_ShortCircuitPreemptsClassifier ==
  (/\ pc # "idle"
   /\ FilePresent
   /\ PrettierPattern(question) \/ MultiCursorPattern(question))
  => /\ ~Called("_analyze_question_with_ai")
     /\ ~Called("post:classify")
     /\ pc \in {"route", "returned", "responded"}
     /\ pc # "route" =>
          /\ Len(calls) = 1
          /\ calls[1].fn = IF PrettierPattern(question)
                             THEN "test_npx_prettier"
                             ELSE "process_multi_cursor_json"
          /\ answer = calls[1].ret

\* C1, witness: the upper-case prettier question, asked with a file, has
\* been answered by test_npx_prettier.
C1_Witness ==
  /\ pc = "returned"
  /\ question = "prettier_upper"
  /\ FilePresent
  /\ calls = <<Call("test_npx_prettier", answer)>>

\* C2: process_question never raises, and the front door answers with the
\* string it returned, not with an error status.
C2_NeverRaises ==
  /\ pc # "raised"
  /\ pc = "responded" => http.status = 200 /\ http.body = answer

\* the uploaded file's name as the command handler sees it
FileName == Basename(temp_file_path)

\* the processes started by _execute_commands (test_npx_prettier leaves
\* commands empty)
PipelineStarted == IF commands = <<>> THEN {} ELSE DOMAIN started

\* the tokens after the program name of pipeline stage n, placeholders
\* replaced
StageArgs(n) == Tail(CmdParts(commands[n], FileName))

\* an argument that nothing of the allow-list covers
UnknownArg(program, arg) ==
  /\ arg # FileName
  /\ arg \notin AllowedArgs(program)
  /\ ~StartsWith(arg, K_dashdash)
  /\ ~(program = K_npx /\ \E a \in AllowedArgs(program) : Contains(arg, a))

\* C3: no stage of _execute_commands is started when one of its arguments is
\* unknown (not the uploaded filename, not an allow-listed argument of the
\* program, not starting with "--" and, for npx, not containing an
\* allow-listed package identifier): such an argument is never dropped while
\* the stage runs with the remaining arguments.
C3_FailsClosedOnUnknownTokens ==
  \A k \in PipelineStarted :
    LET args == StageArgs(started[k].stage)
    IN  \A i \in DOMAIN args : ~UnknownArg(started[k].final_cmd[1], args[i])

\* the program names of the allow-list
AllowedPrograms == {K_npx, K_sha256sum}

\* the error string for a program that is not allowed
CommandNotAllowed(program) ==
  "Error: Command '" \o Str(program) \o "' is not allowed for security reasons."

\* a stage of the pipeline whose program name is not on the allow-list has
\* been reached: it was not started and the request ended with the error
RejectsOtherPrograms ==
  /\ \A k \in DOMAIN started : started[k].final_cmd[1] \in AllowedPrograms
  /\ \A n \in DOMAIN commands :
       LET parts == SplitWs(commands[n])
       IN  (/\ pc \in {"returned", "responded"}
            /\ stage = n
            /\ parts # <<>>
            /\ parts[1] \notin AllowedPrograms)
           => /\ answer = CommandNotAllowed(parts[1])
              /\ \A k \in DOMAIN started : started[k].stage # n

\* C4, as stated: every process started has an allow-listed program name
\* and arguments that are each the uploaded filename or an allow-listed
\* argument of that program; a stage with another program name is rejected
\* with the "not allowed" string and never started.
C4_OnlyAllowListedArguments ==
  /\ RejectsOtherPrograms
  /\ \A k \in DOMAIN started :
       LET program == started[k].final_cmd[1]
           args == Tail(started[k].final_cmd)
       IN  \A i \in DOMAIN args :
             args[i] = FileName \/ args[i] \in AllowedArgs(program)

\* C4, amended: every process started has an allow-listed program name and
\* arguments that are each the uploaded filename, an allow-listed argument of
\* that program, an argument starting with "--", or (npx only) an argument
\* with an "@" that contains an allow-listed argument; a stage with another
\* program name is rejected with the "not allowed" string and never started.
C4_OnlyAcceptedArguments ==
  /\ RejectsOtherPrograms
  /\ \A k \in DOMAIN started :
       LET program == started[k].final_cmd[1]
           args == Tail(started[k].final_cmd)
       IN  \A i \in DOMAIN args :
             \/ args[i] = FileName
             \/ args[i] \in AllowedArgs(program)
             \/ StartsWith(args[i], K_dashdash)
             \/ /\ program = K_npx
                /\ "@" \in Range(args[i])
                /\ \E a \in AllowedArgs(program) : Contains(args[i], a)

\* C4, witness: the request with the look-alike package has been answered
\* after _execute_commands started npx with an argument that is neither the
\* filename nor on its allow-list.
C4_Witness ==
  /\ pc = "responded"
  /\ question = "npx_lookalike"
  /\ \E k \in PipelineStarted :
       /\ started[k].final_cmd[1] = K_npx
       /\ \E i \in 2..Len(started[k].final_cmd) :
            /\ started[k].final_cmd[i] # FileName
            /\ started[k].final_cmd[i] \notin AllowedArgs(K_npx)

\* the classifier ran, so no short-circuit fired
Classified == Called("_analyze_question_with_ai")

\* the intent is a dict whose `actions` is a list that holds action
IntentHasAction(action) ==
  /\ analysis.t = "obj"
  /\ "actions" \in DOMAIN analysis.v
  /\ analysis.v["actions"].t = "arr"
  /\ \E i \in DOMAIN analysis.v["actions"].v :
       analysis.v["actions"].v[i] = action

\* the field of the intent, JNull when the intent has none
IntentField(key) ==
  IF analysis.t = "obj" /\ key \in DOMAIN analysis.v
    THEN analysis.v[key] ELSE JNull

\* the intent carries a non-empty direct_answer
HasDirectAnswer ==
  IntentField("direct_answer").t = "str" /\ IntentField("direct_answer").v # ""

\* the handlers of the dispatch states
DispatchHandlers ==
  {"process_command_question", "process_multi_cursor_json", "count_wednesdays",
   "sort_json"}

\* the finalizer was used: its request was sent or it returned
FinalizerUsed == Called("post:finalize") \/ Called("_get_final_answer_with_ai")

\* the last call made for the request
LastCall == calls[Len(calls)]

\* C5: when no short-circuit fired and the intent's actions include
\* "execute_command", the request ends with the string returned by
\* process_command_question as its answer, and neither a calculation
\* handler, the direct-answer shortcut nor the finalizer is used.
C5_CommandDispatchTerminal ==
  (Finished /\ Classified /\ IntentHasAction("execute_command"))
  => /\ pc # "raised"
     /\ exc = ""
     /\ LastCall.fn = "process_command_question"
     /\ answer = LastCall.ret
     /\ ~Called("count_wednesdays")
     /\ ~Called("sort_json")
     /\ ~FinalizerUsed

\* the multi-cursor phrasing of the structured-processing state
JsonhashPhrasing(q) == Mentions[q]["multi-cursor"] /\ Mentions[q]["jsonhash"]

\* the request has reached the specialized-calculation state: the classifier
\* ran, nothing was raised and neither the command state nor the
\* structured-processing state applies
AtSpecializedCalculation ==
  /\ pc \in {"finalize", "returned", "responded"}
  /\ Classified
  /\ exc = ""
  /\ IntentHasAction("specialized_calculation")
  /\ ~IntentHasAction("execute_command")
  /\ ~(IntentHasAction("process_json") /\ FilePresent /\ JsonhashPhrasing(question))

\* date_range is a list of exactly two strings
TwoDates ==
  IntentField("date_range").t = "arr" /\ Len(IntentField("date_range").v) = 2

\* json_data is a non-empty string
HasJsonData ==
  IntentField("json_data").t = "str" /\ Len(IntentField("json_data").v) # 0

\* evaluation fell through to the direct-answer state: no handler was
\* invoked, a non-empty direct_answer is the answer, and without one the
\* finalizer is used
FellThroughToDirectAnswer ==
  /\ \A i \in DOMAIN calls : calls[i].fn \notin DispatchHandlers
  /\ IF HasDirectAnswer
       THEN answer = IntentField("direct_answer").v /\ ~FinalizerUsed
       ELSE FinalizerUsed

\* C6: at the specialized-calculation state, count_wednesdays with a
\* date_range of exactly two strings returns the date handler's result for
\* the two dates, json_sorting with a non-empty json_data returns the sort
\* handler's result, and in every other case no handler is invoked and
\* evaluation falls through to the direct-answer state.
C6_SpecializedCalculationDispatch ==
  AtSpecializedCalculation =>
    LET calculation_type == IntentField("calculation_type")
        date_range == IntentField("date_range")
        json_data == IntentField("json_data")
    IN  IF calculation_type = JStr("count_wednesdays") /\ TwoDates
          THEN /\ LastCall.fn = "count_wednesdays"
               /\ LastCall.ret =
                    count_wednesdays(date_range.v[1], date_range.v[2])
               /\ answer = LastCall.ret
               /\ ~FinalizerUsed
        ELSE IF calculation_type = JStr("json_sorting") /\ HasJsonData
          THEN /\ LastCall.fn = "sort_json"
               /\ LastCall.ret = Str(sort_json(json_data.v))
               /\ answer = LastCall.ret
               /\ ~FinalizerUsed
        ELSE FellThroughToDirectAnswer

\* C6, witness: a count_wednesdays intent with a date_range of three dates
\* and a direct_answer has been answered with the direct_answer.
C6_Witness ==
  /\ AtSpecializedCalculation
  /\ pc = "returned"
  /\ IntentField("calculation_type") = JStr("count_wednesdays")
  /\ IntentField("date_range").t = "arr"
  /\ Len(IntentField("date_range").v) = 3
  /\ HasDirectAnswer
  /\ answer = "42"

\* a dispatch handler was called for the request
DispatchHandlerCalled == \E i \in DOMAIN calls : calls[i].fn \in DispatchHandlers

\* C7: when the classifier ran and the intent carries a non-empty
\* direct_answer, a request that no dispatch state terminated returns exactly
\* that direct_answer without the finalizer, and a request a dispatch state
\* terminated returns the handler's result.
C7_DirectAnswerShortcut ==
  (Finished /\ Classified /\ HasDirectAnswer)
  => IF DispatchHandlerCalled
       THEN /\ pc # "raised"
            /\ LastCall.fn \in DispatchHandlers
            /\ answer = LastCall.ret
       ELSE /\ pc # "raised"
            /\ exc = ""
            /\ answer = IntentField("direct_answer").v
            /\ ~FinalizerUsed

\* C8: in every finished request the finalizer has been called if and only
\* if no short-circuit matched, no dispatch state terminated and
\* direct_answer is absent or empty.
C8_FinalizerIsCatchAllOnly ==
  Finished =>
    (Called("_get_final_answer_with_ai")
       <=> /\ Classified
           /\ ~DispatchHandlerCalled
           /\ ~HasDirectAnswer)

\* how often fn was called for the request
Count(fn) == Cardinality({i \in DOMAIN calls : calls[i].fn = fn})

\* C9: in a request the classifier is called at most once and its request
\* sent at most once, the finalizer request is sent at most once, every
\* pipeline stage is started at most once, a failed classification request
\* has not been sent again when the classifier returns, and a process that
\* exits with an error is the last one started and ends the request.
C9_NoRetry ==
  /\ Count("_analyze_question_with_ai") <= 1
  /\ Count("post:classify") <= 1
  /\ Count("post:finalize") <= 1
  /\ Count("_get_final_answer_with_ai") <= 1
  /\ \A j, k \in DOMAIN started : j < k => started[j].stage < started[k].stage
  /\ \A k \in DOMAIN started :
       started[k].returncode # 0
         => k = Len(started) /\ pc \in {"returned", "responded"}

\* C9, witness: the classification request timed out and the classifier has
\* returned after that one request.
C9_Witness ==
  /\ pc = "classified"
  /\ ai_reply = "timeout"
  /\ Count("post:classify") = 1

\* the parsed arguments the service can send for each question
ServiceArguments == [q \in QuestionIds |-> ParsedArguments(q)]

\* the ways classification fails
ClassifierFailures ==
  {"no_token", "status_error", "network_error", "timeout", "no_choices",
   "no_tool_call", "no_arguments", "malformed_arguments"}

\* C10: when classification has failed (no token, an error status, a network
\* error or timeout, a reply without choices, tool call or arguments,
\* malformed arguments) the classifier has returned an intent that carries
\* exactly a non-empty `error` and an empty `actions` list; the intent of a
\* successful reply is the parsed arguments of the service.
C10_ClassifierFailureContract ==
  pc = "classified" =>
    /\ ai_reply \in ClassifierFailures \cup {"ok"}
    /\ ai_reply \in ClassifierFailures =>
         /\ analysis.t = "obj"
         /\ DOMAIN analysis.v = {"error", "actions"}
         /\ analysis.v["error"].t = "str"
         /\ analysis.v["error"].v # ""
         /\ analysis.v["actions"] = JArr(<<>>)
    /\ ai_reply = "ok" => analysis \in ServiceArguments[question]

\* C10, witness: the service replied with malformed arguments and the
\* classifier has returned.
C10_Witness ==
  /\ pc = "classified"
  /\ ai_reply = "malformed_arguments"
  /\ Classified

\* the intent is a dict whose `actions` is absent or null
ActionsMissing == analysis.t = "obj" /\ IntentField("actions").t # "arr"

\* C11: an intent whose `actions` is absent or null is consumed as one
\* with an empty list (nothing is raised, the file is not pre-processed and
\* no dispatch handler runs), and a date_range whose length is not 2 is
\* treated as absent (the date handler is not called).
C11_IntentInvariant ==
  /\ (Finished /\ Classified /\ ActionsMissing)
       => /\ pc # "raised"
          /\ exc = ""
          /\ ~Called("_process_file")
          /\ ~DispatchHandlerCalled
  /\ (AtSpecializedCalculation /\ ~TwoDates) => ~Called("count_wednesdays")

\* C14: once process_command_question or test_npx_prettier has returned or
\* raised, the working directory no longer exists, and every process was
\* started in that directory with arguments that name no path outside it, so
\* that the uploaded file is not touched.
C14_WorkingDirectoryDiscarded ==
  /\ pc \in {"returned", "raised", "responded"} => workdir # "exists"
  /\ pc = "exec" => workdir = "exists"
  /\ \A k \in DOMAIN started :
       /\ started[k].cwd = WorkingDir
       /\ \A i \in 2..Len(started[k].final_cmd) :
            "/" \notin Range(started[k].final_cmd[i])

\* C14, witness: the pipeline ended at a stage that exited with an error,
\* after its working directory had been created.
C14_Witness ==
  /\ pc = "returned"
  /\ commands # <<>>
  /\ started # <<>>
  /\ started[Len(started)].returncode # 0
  /\ workdir = "removed"

\* C15: when the CSV question is asked with an archive, the classifier
\* answers csv_extraction with the one action process_file, and the lookup
\* in the archive gave "test_answer", the answer of the request is
\* "test_answer".
C15_CsvLookupIsTheAnswer ==
  (/\ Finished
   /\ question = "csv"
   /\ temp_file_path = save_upload_file(N_data_zip)
   /\ IntentField("question_type") = JStr("csv_extraction")
   /\ IntentField("actions") = JArr(<<"process_file">>)
   /\ \E i \in DOMAIN calls :
        calls[i] = Call("_process_file", "test_answer"))
  => /\ exc = ""
     /\ answer = "test_answer"

\* the error string of a stage that exited with a nonzero code
StageError(process) ==
  "Error executing " \o Str(process.final_cmd[1]) \o ": " \o process.stderr

\* C20: the stages of the pipeline are started one at a time in
\* left-to-right order, and a stage that exits with a nonzero code is the
\* last one started: the handler has returned the error string with that
\* stage's standard error.
C20_StopsAtFirstFailingStage ==
  \A k \in PipelineStarted :
    /\ started[k].stage = k
    /\ k > 1 => started[k].stdin.piped /\ started[k - 1].returncode = 0
    /\ started[k].returncode # 0
         => /\ k = Len(started)
            /\ pc \in {"returned", "responded"}
            /\ answer = StageError(started[k])
            /\ LastCall = Call("process_command_question", answer)

\* C20, witness: the first stage of a pipeline of two exited with an error
\* and the request has been answered without starting the second.
C20_Witness ==
  /\ pc = "responded"
  /\ Len(commands) = 2
  /\ Len(started) = 1
  /\ started[1].returncode # 0

\* request r has saved an upload
SavedUpload(r) == reqs[r].pc # "idle" /\ reqs[r].temp_file_path # NoFile

\* C12: no request reads the bytes of another request's upload or finds its
\* own upload gone, overwrites the upload of another request, or deletes the
\* upload of another request.
C12_RequestIsolation ==
  \A r \in DOMAIN reqs :
    /\ reqs[r].read \in {-1, r}
    /\ reqs[r].overwrote = 0
    /\ reqs[r].deleted \in {0, r}

\* C13: the upload a request saved is eventually deleted: the file at its
\* path is gone, or is the upload of another request.
C13_UploadEventuallyDeleted ==
  \A r \in Requests :
    [](SavedUpload(r) => <>(Owner(reqs[r].temp_file_path) # r))

\* the date a string denotes in whichever supported format matches it
ParsedDate(text) ==
  IF StrptimeIso(text).ok THEN StrptimeIso(text) ELSE StrptimeUs(text)

ValidDate(text) == ParsedDate(text).ok

\* count_wednesdays has returned for two valid dates
CountedValidDates ==
  /\ call.fn = "count_wednesdays"
  /\ call.ret # <<>>
  /\ ValidDate(call.args[1])
  /\ ValidDate(call.args[2])

\* the Wednesdays among the days 1..n of the calendar: the days n with
\* n % 7 = 3
WednesdaysUpTo(n) == (n + 4) \div 7

\* the reference count of the inclusive range between two date strings
ReferenceCount(a, b) ==
  LET first == ToOrdinal(ParsedDate(a))
      last == ToOrdinal(ParsedDate(b))
  IN  IF first > last THEN 0
      ELSE WednesdaysUpTo(last) - WednesdaysUpTo(first - 1)

\* C16: for any two valid dates in a supported format (YYYY-MM-DD or
\* MM/DD/YYYY) count_wednesdays returns, as a decimal string, the number of
\* Wednesdays of the inclusive range [start, end], equal to the reference
\* count; 1985-09-10 to 2011-10-02 gives "1357", and a range whose single day
\* is a Wednesday gives "1".
C16_CountEqualsReference ==
  CountedValidDates =>
    /\ call.ret[1] = ToString(ReferenceCount(call.args[1], call.args[2]))
    /\ (call.args = <<FormatIso(1985, 9, 10), FormatIso(2011, 10, 2)>>
          => call.ret[1] = "1357")
    /\ ((ParsedDate(call.args[1]) = ParsedDate(call.args[2])
          /\ Weekday(ToOrdinal(ParsedDate(call.args[1]))) = 2)
         => call.ret[1] = "1")

\* C17: count_wednesdays is symmetric and format-independent: for any two
\* valid dates a and b, count_wednesdays(a, b) = count_wednesdays(b, a), and
\* writing either date in the other supported format, one date as YYYY-MM-DD
\* and the other as MM/DD/YYYY included, does not change the result.
C17_SymmetricAndFormatIndependent ==
  CountedValidDates =>
    /\ call.ret[1] = count_wednesdays(call.args[2], call.args[1])
    /\ \A a \in Renderings(ParsedDate(call.args[1])),
          b \in Renderings(ParsedDate(call.args[2])) :
          call.ret[1] = count_wednesdays(a, b)

\* sort_json has returned for a text that is a JSON array of objects
SortedArrayOfObjects ==
  /\ call.fn = "sort_json"
  /\ call.ret # <<>>
  /\ loads(call.args[1]).ok
  /\ loads(call.args[1]).value.t = "list"
  /\ \A i \in DOMAIN loads(call.args[1]).value.v :
       loads(call.args[1]).value.v[i].t = "dict"

\* the sort key the property names for the elements of data: (age, name)
\* when both fields occur in some element, the single field that occurs
\* otherwise, and the same key for all when neither occurs
SortKey(data, x) ==
  LET has_age == \E i \in DOMAIN data : HasKey(data[i], Texts.age)
      has_name == \E i \in DOMAIN data : HasKey(data[i], Texts.name)
      age == DictGet(x, Texts.age, PyInt(0))
      name == DictGet(x, Texts.name, PyStr(<<>>))
  IN  IF has_age /\ has_name THEN PyTuple(<<age, name>>)
      ELSE IF has_age THEN age
      ELSE IF has_name THEN name
      ELSE PyNone

\* the permutations of 1..n
Orders(n) ==
  {p \in [1..n -> 1..n] : \A i, j \in 1..n : i # j => p[i] # p[j]}

\* out is data in sorted order: a rearrangement in which every element
\* precedes those of greater key, and those of equal key that follow it in
\* data
StableSorted(data, out) ==
  /\ Len(out) = Len(data)
  /\ \E p \in Orders(Len(data)) :
       /\ \A i \in DOMAIN out : out[i] = data[p[i]]
       /\ \A i, j \in DOMAIN out :
            i < j =>
              LET a == SortKey(data, data[p[i]])
                  b == SortKey(data, data[p[j]])
              IN  \/ PyLt(a, b).ok /\ PyLt(a, b).lt
                  \/ PyEq(a, b) /\ p[i] < p[j]

\* C18: for every JSON array of objects, sort_json(sort_json(x)) is
\* byte-identical to sort_json(x); the output is the array sorted by
\* (age, name) when both fields occur in any element, by the single field
\* present otherwise, and in input order when neither occurs; elements with
\* equal keys keep their input order; the output is serialized with no
\* whitespace.
C18_SortIdempotentAndStable ==
  SortedArrayOfObjects =>
    LET data == loads(call.args[1]).value.v
        out == loads(call.ret[1])
    IN  /\ sort_json(call.ret[1]) = call.ret[1]
        /\ out.ok
        /\ out.value.t = "list"
        /\ StableSorted(data, out.value.v)
        /\ call.ret[1] = dumps(out.value, <<",">>, <<":">>)
        /\ \A i \in DOMAIN call.ret[1] : call.ret[1][i] \notin Whitespace

\* extract_json_key has returned for a document that parses
Extracted ==
  /\ call.fn = "extract_json_key"
  /\ call.ret # <<>>
  /\ loads(call.args[1]).ok

\* where the parts of a path lead in a value, from the k-th part on: to the
\* sub-value they name, to a key that is missing from an object, to an
\* index beyond the bounds of a list, or to a part that does not apply to
\* the value reached
RECURSIVE Lookup(_, _, _)
Lookup(value, parts, k) ==
  LET part == parts[k]
      i == ToInt(part.index)
  IN  IF k > Len(parts) THEN [kind |-> "present", value |-> value, at |-> k]
      ELSE IF part.name # <<>> /\ value.t = "dict"
        THEN IF HasKey(value, part.name)
               THEN Lookup(DictGet(value, part.name, PyNone), parts, k + 1)
               ELSE [kind |-> "missing key", value |-> value, at |-> k]
      ELSE IF part.name = <<>> /\ value.t = "list"
        THEN IF i < Len(value.v)
               THEN Lookup(value.v[i + 1], parts, k + 1)
               ELSE [kind |-> "index out of range", value |-> value, at |-> k]
      ELSE [kind |-> "not applicable", value |-> value, at |-> k]

\* C19: extract_json_key returns exactly the sub-value of a path that is
\* present in the data; a missing intermediate key continues as an
\* empty-object traversal and yields a non-error result, whatever keys or
\* indexes follow it; an index beyond the bounds of a list returns the
\* "Index i out of range" error string.
C19_KeyPathOutcomes ==
  Extracted =>
    LET parts == FindParts(call.args[2], 1)
        found == Lookup(loads(call.args[1]).value, parts, 1)
    IN  /\ found.kind = "present" =>
             call.ret[1] =
               IF found.value.t \in {"dict", "list"}
                 THEN dumps(found.value, <<",", " ">>, <<":", " ">>)
                 ELSE str(found.value)
        /\ found.kind = "missing key" =>
             ~StartsWith(call.ret[1], <<"E", "r", "r", "o", "r">>)
        /\ found.kind = "index out of range" =>
             call.ret[1] =
               Texts.index \o IntText(ToInt(parts[found.at].index))
                 \o Texts.out_of_range

\* C21: in a pipeline whose stages all exit with code 0 the first stage runs
\* with no piped input, the standard input of stage k+1 is exactly the
\* captured standard output of stage k, also when that output is empty, and
\* the handler's result is the captured output of the last stage with the
\* surrounding whitespace stripped.
C21_PipelineDataFlow ==
  \A k \in PipelineStarted :
    (\A j \in 1..k : started[j].returncode = 0)
    => /\ k = 1 => started[k].stdin = NoResult
       /\ k > 1 =>
            started[k].stdin = [piped |-> TRUE, data |-> started[k - 1].stdout]
       /\ k = Len(commands) =>
            /\ pc \in {"returned", "responded"}
            /\ answer = Str(Strip(started[k].stdout))
            /\ LastCall = Call("process_command_question", answer)

\* C21, witness: a pipeline of two stages has returned; its first stage
\* printed nothing and exited with code 0, its second stage printed a digest
\* with whitespace around it.
C21_Witness ==
  /\ pc = "responded"
  /\ Len(commands) = 2
  /\ Len(started) = 2
  /\ started[1].returncode = 0
  /\ started[1].stdout = O_empty
  /\ started[2].returncode = 0
  /\ started[2].stdout = O_digest
  /\ answer = Str(Strip(O_digest))

\* the stages of the pipeline that the allow-list refuses (the program or,
\* for npx, a package argument)
Refused ==
  {n \in DOMAIN commands :
     StageCheck(commands[n], FileName).kind
       \in {"command_not_allowed", "package_not_allowed"}}

\* C28: the allow-list is checked stage by stage, interleaved with execution.
\* When the handler returns the "not allowed" error of stage r, the stages
\* before r have all been started and have exited with code 0, and stage r
\* and the stages after it have not been started; no process at all has been
\* started exactly when r is the first stage.
C28_ValidationInterleaved ==
  \A r \in Refused :
    ( /\ pc \in {"returned", "responded"}
      /\ r = SetMin(Refused)
      /\ LastCall = Call("process_command_question",
                         StageCheck(commands[r], FileName).text) )
    => /\ DOMAIN started = 1..(r - 1)
       /\ \A k \in DOMAIN started :
            started[k].stage = k /\ started[k].returncode = 0
       /\ (started = <<>>) <=> (r = 1)

\* C28, witness: the second stage of a pipeline is refused, the handler has
\* returned "not allowed", and the first stage has run before that.
C28_Witness ==
  /\ pc = "responded"
  /\ Len(commands) = 2
  /\ Refused = {2}
  /\ answer = StageCheck(commands[2], FileName).text
  /\ Len(started) = 1
  /\ started[1].returncode = 0

\* the error string for a package argument that is not allowed
PackageNotAllowed(arg) ==
  "Error: Package '" \o Str(arg) \o "' is not allowed for security reasons."

\* an argument with an "@" that is not the file name, not an allow-listed
\* argument of npx and does not begin with "--"
PackageLike(arg) ==
  /\ "@" \in Range(arg)
  /\ arg # FileName
  /\ arg \notin AllowedArgs(K_npx)
  /\ ~StartsWith(arg, K_dashdash)

\* the processes started for stage n of the pipeline
StartedFor(n) == {k \in PipelineStarted : started[k].stage = n}

\* C29: for a stage whose program is npx, an argument with an "@" that is
\* neither the file name nor an exact allow-listed argument (and is not
\* covered by the "--" rule) is accepted, and passed to the process started
\* for the stage, if and only if some allow-listed argument of npx ("-y",
\* "prettier@3.4.2") is a substring of it; otherwise the stage is never
\* started and the handler returns "Error: Package '...' is not allowed for
\* security reasons." for it. For every allow-listed program an argument that
\* begins with "--" is accepted and passed to the process.
C29_SubstringPackageCheck ==
  \A n \in DOMAIN commands :
    SplitWs(commands[n]) # <<>> =>
      LET program == SplitWs(commands[n])[1]
          args == StageArgs(n)
          packages == {i \in DOMAIN args : PackageLike(args[i])}
          refused == {i \in packages :
                        ~\E a \in AllowedArgs(K_npx) : Contains(args[i], a)}
      IN  /\ program = K_npx =>
               /\ \A i \in packages \ refused :
                    /\ \A k \in StartedFor(n) :
                         args[i] \in Range(Tail(started[k].final_cmd))
                    /\ answer # PackageNotAllowed(args[i])
               /\ refused # {} =>
                    /\ StartedFor(n) = {}
                    /\ ( /\ pc \in {"returned", "responded"}
                         /\ stage = n
                         /\ LastCall.fn = "process_command_question" )
                       => answer = PackageNotAllowed(args[SetMin(refused)])
          /\ program \in AllowedPrograms =>
               \A i \in DOMAIN args :
                 StartsWith(args[i], K_dashdash) =>
                   \A k \in StartedFor(n) :
                     args[i] \in Range(Tail(started[k].final_cmd))

\* C29, witness: the request that runs npx with the package evil@1.0.0 has
\* been answered with the package error and nothing was started.
C29_Witness ==
  /\ pc = "responded"
  /\ question = "npx_evil"
  /\ Len(commands) = 1
  /\ \E i \in DOMAIN StageArgs(1) :
       /\ PackageLike(StageArgs(1)[i])
       /\ answer = PackageNotAllowed(StageArgs(1)[i])
  /\ started = <<>>

\* the request that runs sha256sum with an argument beginning with "--" has
\* been answered after the process was started with that argument
DashDashAccepted ==
  /\ pc = "responded"
  /\ question = "sha_flag"
  /\ \E k \in StartedFor(1) :
       \E i \in 2..Len(started[k].final_cmd) :
         StartsWith(started[k].final_cmd[i], K_dashdash)

\* the guard of the structured-processing state (lines 147-148): the intent
\* lists "process_json", a file is present and the question mentions
\* "multi-cursor" and "jsonhash"
StructuredProcessingGuard ==
  /\ IntentHasAction("process_json")
  /\ FilePresent
  /\ JsonhashPhrasing(question)

\* C27: the structured-processing dispatch state is unreachable. A question
\* and file that satisfy its guard satisfy the second literal short-circuit
\* too, which returns before the classifier is called: the intent of such a
\* request never lists anything, the dispatch is never entered with the guard
\* true, and every call of process_multi_cursor_json is the only call of its
\* request, made by the short-circuit with no classifier call before it.
C27_StructuredStateUnreachable ==
  /\ (FilePresent /\ JsonhashPhrasing(question))
       => /\ MultiCursorPattern(question)
          /\ ~Classified
          /\ pc # "dispatch"
  /\ ~(Classified /\ StructuredProcessingGuard)
  /\ \A i \in DOMAIN calls :
       calls[i].fn = "process_multi_cursor_json"
         => /\ i = 1
            /\ Len(calls) = 1
            /\ FilePresent
            /\ MultiCursorPattern(question)

\* C27, witness: a question that mentions "Multi-Cursor" and "JSONHash" came
\* with a file and has been answered by the one call the short-circuit made.
C27_Witness ==
  /\ pc = "responded"
  /\ FilePresent
  /\ JsonhashPhrasing(question)
  /\ calls = <<Call("process_multi_cursor_json", answer)>>

\* the classifier has failed and the request is over
DegradedRequestOver ==
  /\ Finished
  /\ Classified
  /\ ai_reply \in ClassifierFailures

\* the finalize prompt holds the note on the classifier's error
ErrorNoteInPrompt ==
  \E i \in DOMAIN prompt :
    prompt[i] = [part |-> "error", value |-> IntentField("error")]

\* what the degraded request has in common whatever the failure: nothing
\* raised, no file pre-processing, no deterministic handler, and the answer
\* is what _get_final_answer_with_ai returned
DegradedRequestFinalized ==
  /\ pc # "raised"
  /\ exc = ""
  /\ ~Called("_process_file")
  /\ ~DispatchHandlerCalled
  /\ LastCall = Call("_get_final_answer_with_ai", answer)

\* C22, as stated: when the classifier has failed (an error intent with empty
\* actions) and no short-circuit matched, the request invokes no
\* deterministic handler and no file pre-processing, proceeds to the
\* finalizer, embeds the classifier's error note in the finalize prompt and
\* returns the finalizer's result.
C22_DegradedClassificationCompletes ==
  DegradedRequestOver =>
    /\ DegradedRequestFinalized
    /\ Count("post:finalize") = 1
    /\ ErrorNoteInPrompt

\* C22, amended: when the classifier has failed and no short-circuit matched,
\* the request invokes no deterministic handler and no file pre-processing
\* and returns the result of the finalizer. With a token configured the
\* finalizer builds the prompt, with the note on the classifier's error in
\* it, and sends one request; without a token it builds no prompt, sends
\* nothing and returns the string on the missing token.
C22_DegradedClassificationFinalized ==
  DegradedRequestOver =>
    /\ DegradedRequestFinalized
    /\ ai_proxy_token =>
         /\ ai_reply # "no_token"
         /\ Count("post:finalize") = 1
         /\ ErrorNoteInPrompt
    /\ ~ai_proxy_token =>
         /\ ai_reply = "no_token"
         /\ Count("post:finalize") = 0
         /\ prompt = <<>>
         /\ answer = "AI Proxy token not configured. Please set the AIPROXY_TOKEN environment variable."

\* C22, witness: the classification request got an error status for a
\* question that came with a file, and the request has been answered with
\* the reply to a finalize prompt that holds the note on that error.
C22_Witness ==
  /\ pc = "responded"
  /\ FilePresent
  /\ ai_reply = "status_error"
  /\ ErrorNoteInPrompt
  /\ ~Called("_process_file")
  /\ http.body = "42"

\* the intents _analyze_question_with_ai can return for each question
ClassifierIntents ==
  [q \in QuestionIds |->
     {analyze_question_with_ai(reply) : reply \in ClassifierReplies(q)}
       \cup {analyze_question_with_ai([kind |-> "no_token",
                                       arguments |-> JNull])}]

\* the position of the first call of fn among the calls of the request, 0
\* when there is none
FirstCallOf(fn) ==
  IF Called(fn) THEN SetMin({i \in DOMAIN calls : calls[i].fn = fn}) ELSE 0

\* what _process_file returned
ProcessFileResult == calls[FirstCallOf("_process_file")].ret

\* the intent without the file content attached to it
WithoutFileContent ==
  JObj([k \in DOMAIN analysis.v \ {"file_content"} |-> analysis.v[k]])

\* the classifier has returned and line 134 has been passed
PreprocessingDecided ==
  Classified /\ pc \notin {"route", "classified"}

\* C24: file pre-processing runs if and only if a file is present and the
\* actions of the intent include "process_file"; it runs before the command
\* dispatch; a non-empty result is attached to the intent as file_content,
\* and nothing else of the intent changes during the request; a raw read of
\* at most 8000 characters returns the text unchanged and a longer text is
\* cut to its first 8000 characters followed by the truncation marker.
C24_FilePreprocessing ==
  /\ Called("_process_file") => PreprocessingDecided
  /\ PreprocessingDecided =>
       /\ Called("_process_file")
            <=> (FilePresent /\ IntentHasAction("process_file"))
       /\ Count("_process_file") <= 1
       /\ (Called("_process_file") /\ Called("process_command_question"))
            => FirstCallOf("_process_file")
                 < FirstCallOf("process_command_question")
       /\ analysis.t = "obj" =>
            /\ WithoutFileContent \in ClassifierIntents[question]
            /\ "file_content" \in DOMAIN analysis.v
                 <=> (Called("_process_file") /\ ProcessFileResult # "")
            /\ "file_content" \in DOMAIN analysis.v
                 => analysis.v["file_content"] = JStr(ProcessFileResult)
       /\ (file_chars >= 0 /\ file_chars <= 8000)
            => ProcessFileResult = Text(file_chars)
       /\ file_chars > 8000
            => ProcessFileResult
                 = Text(8000) \o "\n...[content truncated]..."

\* C24, witness: a request whose intent lists "process_file" and
\* "execute_command" has been answered by the command handler after the raw
\* read attached the first 8000 characters of a longer file, with the
\* truncation marker, to the intent.
C24_Witness ==
  /\ pc = "responded"
  /\ FilePresent
  /\ IntentHasAction("process_file")
  /\ file_chars = max_length + 1
  /\ IntentField("file_content")
       = JStr(Text(max_length) \o "\n...[content truncated]...")
  /\ Called("process_command_question")

\* file pre-processing has run on an archive classified as csv_extraction
ZipCsvExtraction ==
  /\ Called("_process_file")
  /\ EndsWith(Lower(temp_file_path), K_zip)
  /\ IntentField("question_type") = JStr("csv_extraction")

\* C30: file pre-processing of a ZIP classified as csv_extraction extracts
\* the archive into a fresh temporary directory that nothing removes: from
\* then on, and after the request has completed, one extraction directory
\* exists (none for any other request). When the archive holds no file with
\* the extension .csv, pre-processing reads the archive itself as raw text
\* and that text is attached to the intent as file_content.
C30_ExtractionDirectoryLeft ==
  /\ temp_dirs = IF ZipCsvExtraction THEN 1 ELSE 0
  /\ csv_file # "" => ZipCsvExtraction
  /\ (ZipCsvExtraction /\ csv_file = "none")
       => /\ file_chars >= 0
               => ProcessFileResult
                    = IF file_chars > 8000
                        THEN Text(8000) \o "\n...[content truncated]..."
                        ELSE Text(file_chars)
          /\ ProcessFileResult # ""
               => IntentField("file_content") = JStr(ProcessFileResult)
  /\ (ZipCsvExtraction /\ csv_file = "found")
       => ProcessFileResult \in CsvResults

\* C30, witness: a request with an archive that holds no CSV file has been
\* answered; the text of the archive is attached to the intent and the
\* extraction directory is still there.
C30_Witness ==
  /\ pc = "responded"
  /\ ZipCsvExtraction
  /\ csv_file = "none"
  /\ file_chars = 120
  /\ IntentField("file_content") = JStr(Text(120))
  /\ temp_dirs = 1

\* the lines of the reply the cleanup was called with (the finalizer strips
\* the reply before the cleanup)
ReplyLinesOf(reply) == SplitOn(Strip(reply), "\n")

\* the label line begins with, <<>> when it begins with none
LabelOf(line) ==
  IF \E label \in AnswerLabels : StartsWith(Lower(line), label)
    THEN CHOOSE label \in AnswerLabels : StartsWith(Lower(line), label)
    ELSE <<>>

\* the lines that open or close a fenced block
FenceLines(lines) == {i \in DOMAIN lines : StartsWith(lines[i], K_fence)}

\* the lines inside the fences: those with an odd number of fence lines
\* before them that are no fence lines themselves
InsideFences(lines) ==
  LET inside == {i \in DOMAIN lines \ FenceLines(lines) :
                   Cardinality({j \in FenceLines(lines) : j < i}) % 2 = 1}
  IN  SelectSeq([i \in DOMAIN lines |-> <<i, lines[i]>>],
                LAMBDA p : p[1] \in inside)

\* a line of meta-commentary
MetaCommentary(line) ==
  \E phrase \in IntroPhrases : Contains(Lower(line), phrase)

\* what the four rules, applied in their order, make of a reply
CleanupByRules(reply) ==
  LET lines == ReplyLinesOf(reply)
      labelled == {i \in DOMAIN lines : LabelOf(lines[i]) # <<>>}
      inside == InsideFences(lines)
      kept == {i \in DOMAIN lines : ~MetaCommentary(lines[i])}
  IN  IF labelled # {}
        THEN LET line == lines[SetMin(labelled)]
             IN  Strip(SubSeq(line, Len(LabelOf(line)) + 1, Len(line)))
      ELSE IF FenceLines(lines) # {}
        THEN JoinLines([i \in DOMAIN inside |-> inside[i][2]])
      ELSE IF kept # {}
        THEN JoinLines(SubSeq(lines, SetMin(kept), Len(lines)))
      ELSE reply

\* C23: the cleanup applies its rules in strict priority order on every
\* reply: (a) when a line begins with a label ("answer:", "the answer is:",
\* "result:") the remainder of the first such line is returned, also when
\* the reply holds a fenced block; (b) otherwise, when the reply holds a
\* fenced block, the lines inside the fences are returned joined; (c)
\* otherwise the leading lines of meta-commentary are dropped and the lines
\* from the first other line on are returned joined; (d) when nothing
\* remains the reply is returned untouched.
C23_CleanupPriority ==
  (call.fn = "_extract_final_answer" /\ call.ret # <<>>)
    => call.ret[1] = CleanupByRules(call.args[1])

\* The conversion of key=value lines, stated on the text of the file and of
\* the result. The texts of ConverterSpec hold no character that a JSON
\* string escapes, so a string is its text between double quotes.
Quoted(text) == <<"\"">> \o text \o <<"\"">>

RECURSIVE JoinWith(_, _)
JoinWith(texts, separator) ==
  IF texts = <<>> THEN <<>>
  ELSE IF Len(texts) = 1 THEN texts[1]
  ELSE texts[1] \o separator \o JoinWith(Tail(texts), separator)

\* the text of the float that value is read as, empty when it is none
FloatText(value) ==
  Once(float(value), LAMBDA float_val :
    IF float_val.ok THEN FloatRepr(float_val.value.v) ELSE <<>>)

\* the JSON text of a value by the order of the rules: all digits, a float,
\* true or false in any case, a comma, anything else
ValueText(value) ==
  IF IsDigits(value) THEN DropLeadingZeros(value)
  ELSE IF FloatText(value) # <<>> THEN FloatText(value)
  ELSE IF Lower(value) \in {K_true, K_false} THEN Lower(value)
  ELSE IF "," \in Range(value)
    THEN LET items == SplitOn(value, ",")
         IN  <<"[">>
               \o JoinWith([i \in DOMAIN items |-> Quoted(Strip(items[i]))],
                           <<",">>)
               \o <<"]">>
  ELSE Quoted(value)

\* the lines of the file that hold a "="
PairLines(file) ==
  SelectSeq(SplitOn(Strip(file.content), "\n"), LAMBDA line : "=" \in Range(line))

FirstEquals(line) == SetMin({k \in DOMAIN line : line[k] = "="})

KeyOf(line) == Strip(SubSeq(line, 1, FirstEquals(line) - 1))

ValueOf(line) == SubSeq(line, FirstEquals(line) + 1, Len(line))

\* the compact object of the file: one member for each key, at the place of
\* the first line with the key and with the value of the last
ObjectText(file) ==
  LET pairs == PairLines(file)
      firsts == SelectSeq([i \in DOMAIN pairs |-> i],
                          LAMBDA i : \A j \in 1..(i - 1) :
                                       KeyOf(pairs[j]) # KeyOf(pairs[i]))
      last(i) == SetMax({j \in DOMAIN pairs :
                           KeyOf(pairs[j]) = KeyOf(pairs[i])})
  IN  <<"{">>
        \o JoinWith([n \in DOMAIN firsts |->
                       Quoted(KeyOf(pairs[firsts[n]])) \o <<":">>
                         \o ValueText(ValueOf(pairs[last(firsts[n])]))],
                    <<",">>)
        \o <<"}">>

ExampleObject == <<"{", "\"", "f", "o", "o", "\"", ":", "1", ",", "\"", "b",
    "a", "r", "\"", ":", "t", "r", "u", "e", ",", "\"", "b", "a", "z", "\"",
    ":", "[", "\"", "x", "\"", ",", "\"", "y", "\"", "]", "}">>

Converted ==
  call.fn = "convert_keyvalue_to_json" /\ call.ret # <<>>
    /\ call.args[1].readable

\* C25: the conversion of a readable file returns the compact JSON object
\* with one member for each line that holds a "=", in the order of the file,
\* the key being the text before the first "=" and the value the text after
\* it as an integer if it is all digits, else as a float, else as a boolean
\* if it is true or false in any letter case, else as the list of its
\* comma-separated items if it holds a comma, else as a string; for the file
\* foo=1, bar=true, baz=x,y the object is {"foo":1,"bar":true,"baz":["x","y"]}
C25_KeyValueConversion ==
  Converted =>
    /\ call.ret[1] = ObjectText(call.args[1])
    /\ call.args[1] = ExampleFile => call.ret[1] = ExampleObject

\* the file of the example has been converted to the object of the example
C25_Witness ==
  Converted /\ call.args[1] = ExampleFile /\ call.ret[1] = ExampleObject

\* the conversion has told an integer from a float, a boolean from a string
\* and a list from a string, on a line without "=" and on a second "="
ConversionKinds ==
  Converted
    /\ call.args[1].content = <<"f", "o", "o", "=", "1", ".", "5", "0", "\n",
        "b", "a", "r", "=", "x", "=", "y">>
    /\ call.ret[1] = <<"{", "\"", "f", "o", "o", "\"", ":", "1", ".", "5", ",",
        "\"", "b", "a", "r", "\"", ":", "\"", "x", "=", "y", "\"", "}">>

Hashed == call.fn = "get_json_hash" /\ call.ret # <<>>

MultiCursorProcessed ==
  call.fn = "process_multi_cursor_json" /\ call.ret # <<>>

\* what get_json_hash returns when it asked the service and the service
\* answered with a hash
ServiceAnswer(ret, reply) == reply.kind = "ok" => ret.value = Message(reply.hash)

ConversionErrorPosted ==
  MultiCursorProcessed /\ ~call.args[1].readable
    /\ call.ret[1].posted = <<K_conversion_error>>
    /\ call.ret[1].value = Message(call.args[2].hash)
    /\ call.args[2].kind = "ok"

====
